---- MODULE Spec2Model ----
(***************************************************************************)
(* ChaosEngine-FX (src/chaosfx/engine.py, src/chaosfx/risk.py) as a state  *)
(* machine: the engine object, the account / order sink it talks to, the   *)
(* clock, and one run_once call split at its three phases (gates, scan,    *)
(* execution loop).                                                        *)
(*                                                                         *)
(* Number conventions.  Money is in whole account units.  A fraction of    *)
(* equity is never stored: portfolio_risk holds the numerator (the summed  *)
(* risk amount) and every comparison against a fractional setting is done  *)
(* by cross-multiplication, settings being written in percent.  Volatility *)
(* scores are in units of 1e-4 and confidences in tenths.  Dates are day   *)
(* numbers.  The engine never reads its dashboard fields, so the model     *)
(* keeps of them what the current call wrote: recent_runs and              *)
(* recent_trades hold the entries appended since the call began (the tail  *)
(* of the engine's lists) and last_summary the summary it stored, if any.  *)
(***************************************************************************)
EXTENDS Integers, Sequences, FiniteSets, TLC

VARIABLES
    utcDay, localDay,        \* the clock: UTC date and the host's local date
    nav,                     \* account NAV reported by get_account_summary
    acctPl,                  \* account cumulative realized P/L ("pl")
    sinkTrades,              \* open trades held by the sink
    last_day, start_of_day_equity,
    last_summary, recent_runs, recent_trades, closed_trade_results,
    pc,                      \* position of run_once: idle / scan / exec / done
    equity, open_trades, portfolio_risk, effective_max_trades,
    in_session, surge_mode, candidate_list, idx, actions,
    market_open,             \* what _is_forex_market_open answered in this call
    result,                  \* how the latest call ended: none / returned / raised
    orders,                  \* orders the sink accepted during this call
    anchor_reread,           \* this call re-read the start-of-day anchor
    stored_utc_day,          \* UTC date at the moment last_day was last assigned
    call_day,                \* <<UTC date, local date>> when this call began
    dd_halt_day,             \* call_day of the latest drawdown halt
    start_risk, start_count, \* portfolio risk and open-trade count at call start
    scanned                  \* whether this call scanned, how many analysed
                             \* pairs were hot / extreme, and what
                             \* generate_signal did for each pair

envVars == <<utcDay, localDay, nav, acctPl, sinkTrades>>
engineVars == <<last_day, start_of_day_equity, last_summary, recent_runs,
                recent_trades, closed_trade_results>>
localVars == <<pc, equity, open_trades, portfolio_risk, effective_max_trades,
               in_session, surge_mode, candidate_list, idx, actions>>
ghostVars == <<market_open, result, orders, anchor_reread, stored_utc_day,
               call_day, dd_halt_day, start_risk, start_count, scanned>>

VARIABLES
    trades_limit,            \* settings.RECENT_TRADES_LIMIT as configured
    runs_recorded,           \* how many summaries _record_run has been handed
    trades_recorded          \* how many trades _record_trade has been handed

historyVars == <<trades_limit, runs_recorded, trades_recorded>>

VARIABLES
    feed,                    \* what the Market Data Provider answers now, as a
                             \* scene per symbol
    gen,                     \* the latest generate_signals call: pending /
                             \* returned / raised
    signals                  \* the list it returned

strategyVars == <<feed, gen, signals>>

VARIABLES
    mono,                    \* time.monotonic(), in seconds
    last_order_time,         \* _last_order_time: symbol -> stamp, for the symbols
                             \* that have an entry
    tick,                    \* what the latest run_tick call gave its caller
    call,                    \* the arguments and the clock of that call
    placed,                  \* the place_order calls that call made, in order
    tried                    \* symbol -> the instant its latest place_order
                             \* call ended

tickVars == <<mono, last_order_time, tick, call, placed, tried>>

VARIABLES
    th,                      \* the run_once invocations under way on the engine,
                             \* each with its position and its locals
    before                   \* the engine's fields when the invocations began

overlapVars == <<th, before>>

\* Everything that a run_once call leaves alone.
VARIABLES
    bars,                    \* what chaosfx generate_signal was handed: the
                             \* features it computes from the candles
    signal                   \* what it returned ("pending" before the call)

signalVars == <<bars, signal>>

VARIABLES
    ask,                     \* a call of one function on its own: its name and
                             \* its arguments
    answer                   \* what the call returned ("pending" before it)

riskVars == <<ask, answer>>

VARIABLES
    clock_utc,               \* datetime.now(timezone.utc): weekday and hour
    opened                   \* what the two market-hours predicates answered
                             \* for it ("pending" before they were asked)

hoursVars == <<clock_utc, opened>>

pureVars == <<signalVars, riskVars, hoursVars>>

outsideEngine == <<historyVars, strategyVars, tickVars, overlapVars, pureVars>>

vars == <<envVars, engineVars, localVars, ghostVars, outsideEngine>>

(***************************************************************************)
(* Settings (src/chaosfx/config.py)                                        *)
(***************************************************************************)
RISK_PER_TRADE == 2
MAX_DRAWDOWN_PER_DAY == 6
MAX_OPEN_TRADES == 2
MAX_OPEN_TRADES_EXTENDED == 3
MAX_TOTAL_PORTFOLIO_RISK == 4
KILL_SWITCH_CONSECUTIVE_LOSSES == 3
VOLATILITY_MIN_SCORE == 3
VOLATILITY_TOP_K == 2
VOLATILITY_EXTREME_MULTIPLIER == 18
EXTREME_RISK_FACTOR == 5
CONFIDENCE_MIN == 15
MAX_USD_DIRECTIONAL_TRADES == 1
MAX_PAIRS == 14
RECENT_RUNS_LIMIT == 100
RECENT_TRADES_LIMIT == 20

\* The configured instrument universe: four of the shipped pairs, in the
\* shipped order (one USD-quoted, one USD-based, two crosses).
FOREX_PAIRS == <<"EUR_USD", "USD_JPY", "GBP_JPY", "EUR_GBP">>

CURRENCY_COMPONENTS ==
    [p \in {"EUR_USD", "USD_JPY", "GBP_JPY", "EUR_GBP"} |->
        CASE p = "EUR_USD" -> <<"EUR", "USD">>
          [] p = "USD_JPY" -> <<"USD", "JPY">>
          [] p = "GBP_JPY" -> <<"GBP", "JPY">>
          [] p = "EUR_GBP" -> <<"EUR", "GBP">>]

(***************************************************************************)
(* Bounds of the exploration                                               *)
(***************************************************************************)
MaxDay == 1
MaxLedger == 4
MaxRuns == 102
MaxTrades == 22
NavLevels == {940, 1000}
DipLevels == {960, 1000}

(***************************************************************************)
(* Small helpers                                                           *)
(***************************************************************************)
Abs(x) == IF x < 0 THEN -x ELSE x

\* int(n / d) for d > 0: Python's int() truncates toward zero.
TruncDiv(n, d) == IF n >= 0 THEN n \div d ELSE -((-n) \div d)

Range(s) == {s[i] : i \in 1..Len(s)}

Prefix(s, n) == IF Len(s) <= n THEN s ELSE SubSeq(s, 1, n)

RECURSIVE SumRisk(_)
SumRisk(S) ==
    IF S = {} THEN 0
    ELSE LET t == CHOOSE x \in S : TRUE
         IN Abs(t.units) * t.dist + SumRisk(S \ {t})

(***************************************************************************)
(* risk.py                                                                 *)
(***************************************************************************)
\* units = int(account_balance * RISK_PER_TRADE / stop_distance); the balance
\* arrives as a fraction balNum / balDen of an account unit.
compute_position_size(balNum, balDen, dist) ==
    IF dist <= 0 THEN 0
    ELSE TruncDiv(balNum * RISK_PER_TRADE, balDen * 100 * dist)

\* drawdown = (start - equity) / start >= MAX_DRAWDOWN_PER_DAY
daily_drawdown_exceeded(eq, start) ==
    IF start <= 0 THEN FALSE
    ELSE (start - eq) * 100 >= MAX_DRAWDOWN_PER_DAY * start

\* The numerator of the portfolio risk fraction (0 when equity <= 0).
compute_portfolio_risk(trades, eq) ==
    IF eq <= 0 THEN 0 ELSE SumRisk(trades)

\* portfolio_risk <= MAX_TOTAL_PORTFOLIO_RISK, the fraction being risk / eq
\* (0.0 when equity <= 0).
RiskWithinCeiling(risk, eq) ==
    IF eq <= 0 THEN TRUE ELSE risk * 100 <= MAX_TOTAL_PORTFOLIO_RISK * eq

\* The two caps the wrong way round.
max_trades_swapped(risk, eq) ==
    IF RiskWithinCeiling(risk, eq) THEN MAX_OPEN_TRADES
    ELSE MAX_OPEN_TRADES_EXTENDED

get_effective_max_trades(risk, eq) ==
    IF RiskWithinCeiling(risk, eq) THEN MAX_OPEN_TRADES_EXTENDED
    ELSE MAX_OPEN_TRADES

\* Mutant: a break-even record counts as a loss.
kill_switch_counting_zero(ledger) ==
    IF Len(ledger) < KILL_SWITCH_CONSECUTIVE_LOSSES THEN FALSE
    ELSE \A i \in (Len(ledger) - KILL_SWITCH_CONSECUTIVE_LOSSES + 1)..Len(ledger) :
            ledger[i].pl <= 0

\* recent_trades is the ledger; a record's "pl" is its P/L delta.
check_consecutive_loss_kill_switch(ledger) ==
    IF Len(ledger) < KILL_SWITCH_CONSECUTIVE_LOSSES THEN FALSE
    ELSE \A i \in (Len(ledger) - KILL_SWITCH_CONSECUTIVE_LOSSES + 1)..Len(ledger) :
            ledger[i].pl < 0

\* The USD direction a position adds: units > 0 is long the base currency.
UsdDirection(instrument, long) ==
    IF CURRENCY_COMPONENTS[instrument][1] = "USD"
    THEN (IF long THEN "long_usd" ELSE "short_usd")
    ELSE (IF long THEN "short_usd" ELSE "long_usd")

HasUsd(instrument) ==
    "USD" \in Range(CURRENCY_COMPONENTS[instrument])

\* A variant that tolerates one more same-direction position.
stacking_allows_one_more(instrument, side, trades) ==
    IF ~HasUsd(instrument) THEN FALSE
    ELSE LET new_usd_direction == UsdDirection(instrument, side = "LONG")
             same == {t \in trades :
                        /\ HasUsd(t.instrument)
                        /\ UsdDirection(t.instrument, t.units > 0) = new_usd_direction}
         IN Cardinality(same) > MAX_USD_DIRECTIONAL_TRADES

would_stack_usd_exposure(instrument, side, trades) ==
    IF ~HasUsd(instrument) THEN FALSE
    ELSE LET new_usd_direction == UsdDirection(instrument, side = "LONG")
             same == {t \in trades :
                        /\ HasUsd(t.instrument)
                        /\ UsdDirection(t.instrument, t.units > 0) = new_usd_direction}
         IN Cardinality(same) >= MAX_USD_DIRECTIONAL_TRADES

\* abs(units) * stop_distance, the numerator of the trade's risk fraction.
compute_trade_risk_pct(dist, units, eq) ==
    IF eq <= 0 THEN 0 ELSE Abs(units) * dist

(***************************************************************************)
(* engine.py: helpers of ChaosEngineFX                                     *)
(***************************************************************************)
NotScanned == [done |-> FALSE, hot |-> 0, extreme |-> 0, input |-> <<>>]

\* A summary that reports a loop without actions under the reason of the
\* volatility floor.
summary_without_loop_reason(reason, acts, surge, eq) ==
    [reason |-> IF reason = "no_valid_signals_in_hot_pairs"
                THEN "no_pairs_above_vol_threshold" ELSE reason,
     actions |-> acts, surge_mode |-> surge, equity |-> eq]

Summary(reason, acts, surge, eq) ==
    [reason |-> reason, actions |-> acts, surge_mode |-> surge, equity |-> eq]

NoSummary == Summary("none", <<>>, FALSE, 0)

\* `if len(s) > n: s = s[-n:]`.  The slice s[-n:] is the last n entries for
\* 0 < n < len(s); for n = 0 it is s[0:], the whole list.
LastN(s, n) ==
    IF Len(s) <= n THEN s
    ELSE IF n = 0 THEN s
    ELSE SubSeq(s, Len(s) - n + 1, Len(s))

\* _record_run: append, then keep the newest RECENT_RUNS_LIMIT entries.
record_run(runs, summary) == LastN(Append(runs, summary), RECENT_RUNS_LIMIT)

\* _record_trade under a configured limit.
record_trade_under(trades, trade, limit) == LastN(Append(trades, trade), limit)

\* _record_trade: append, then keep the newest RECENT_TRADES_LIMIT entries.
record_trade(trades, trade) == record_trade_under(trades, trade, RECENT_TRADES_LIMIT)

\* _can_trade, given the equity it reads.
can_trade(eq, start) == ~daily_drawdown_exceeded(eq, start)

\* A record at every poll, whether the cumulative P/L moved or not.
update_at_every_poll(ledger, recent_pl) ==
    IF ledger # <<>>
    THEN Append(ledger, [cumulative_pl |-> recent_pl,
                         pl |-> recent_pl - ledger[Len(ledger)].cumulative_pl])
    ELSE <<[cumulative_pl |-> recent_pl, pl |-> 0]>>

\* _update_closed_trades, given the cumulative P/L the account reports.
update_closed_trades(ledger, recent_pl) ==
    IF ledger # <<>>
    THEN LET last_pl == ledger[Len(ledger)].cumulative_pl
         IN IF recent_pl # last_pl
            THEN Append(ledger, [cumulative_pl |-> recent_pl, pl |-> recent_pl - last_pl])
            ELSE ledger
    ELSE <<[cumulative_pl |-> recent_pl, pl |-> 0]>>

\* The gates of run_once between the market-hours guard and the scan
\* (engine.py 231-285), in the order the code tests them.
EntryGate(eq, start, ledger, count, cap) ==
    IF ~can_trade(eq, start) THEN "kill_switch_daily_drawdown_exceeded"
    ELSE IF check_consecutive_loss_kill_switch(ledger)
         THEN "kill_switch_consecutive_losses"
    ELSE IF count >= cap THEN "max_open_trades_reached"
    ELSE "scan"

\* A mis-translation of the surge threshold: the plain volatility floor.
extreme_at_floor(a) == a.vol >= VOLATILITY_MIN_SCORE

IsExtreme(a) == a.vol * 10 >= VOLATILITY_MIN_SCORE * VOLATILITY_EXTREME_MULTIPLIER

IsHot(a) == a.vol >= VOLATILITY_MIN_SCORE

\* Mutant: the volatility floor is tested before the session.
ScanGateFloorFirst(sess, extreme_pairs, hot) ==
    IF hot = <<>> THEN "no_pairs_above_vol_threshold"
    ELSE IF ~sess /\ extreme_pairs = <<>> THEN "outside_session_hours"
    ELSE "exec"

\* The two gates after the scan (engine.py 331-367), in the order the code
\* tests them.
ScanGate(sess, extreme_pairs, hot) ==
    IF ~sess /\ extreme_pairs = <<>> THEN "outside_session_hours"
    ELSE IF hot = <<>> THEN "no_pairs_above_vol_threshold"
    ELSE "exec"

\* sorted(list, key=opportunity_score, reverse=True): stable, so equal scores
\* keep their scan order.
RECURSIVE InsertDesc(_, _)
InsertDesc(a, s) ==
    IF s = <<>> THEN <<a>>
    ELSE IF s[1].opportunity_score >= a.opportunity_score
         THEN <<s[1]>> \o InsertDesc(a, Tail(s))
         ELSE <<a>> \o s

RECURSIVE SortedDesc(_)
SortedDesc(s) ==
    IF s = <<>> THEN <<>>
    ELSE InsertDesc(s[Len(s)], SortedDesc(SubSeq(s, 1, Len(s) - 1)))

\* candidate_list[: VOLATILITY_TOP_K]
\* A variant that walks the whole ranked list.
TopAll(list) == list

TopK(list) == Prefix(list, VOLATILITY_TOP_K)

\* new_total_risk > MAX_TOTAL_PORTFOLIO_RISK
ExceedsCeiling(new_total_risk, eq) == ~RiskWithinCeiling(new_total_risk, eq)

\* len(open_trades) >= effective_max_trades after an executed order
\* A variant that stops one position too late.
ReachedMaxTradesStrict(count, cap) == count > cap

ReachedMaxTrades(count, cap) == count >= cap

(***************************************************************************)
(* Initial state: the engine right after ChaosEngineFX.__init__            *)
(***************************************************************************)
EngineInit ==
    /\ utcDay = 0 /\ localDay = 0
    /\ nav = 1000
    /\ acctPl = 0
    /\ sinkTrades = {}
    /\ last_day = localDay
    /\ start_of_day_equity = nav
    /\ last_summary = NoSummary
    /\ recent_runs = <<>>
    /\ recent_trades = <<>>
    /\ closed_trade_results = <<>>
    /\ pc = "idle"
    /\ equity = 0 /\ open_trades = {} /\ portfolio_risk = 0
    /\ effective_max_trades = 0
    /\ in_session = FALSE /\ surge_mode = FALSE
    /\ candidate_list = <<>> /\ idx = 0 /\ actions = <<>>
    /\ market_open = FALSE /\ result = "none" /\ orders = <<>>
    /\ anchor_reread = FALSE
    /\ stored_utc_day = utcDay
    /\ call_day = <<0, 0>>
    /\ dd_halt_day = <<-1, -1>>
    /\ start_risk = 0 /\ start_count = 0
    /\ scanned = NotScanned

\* The histories as the shipped configuration leaves them at start-up.
HistoryInit ==
    /\ trades_limit = RECENT_TRADES_LIMIT
    /\ runs_recorded = 0
    /\ trades_recorded = 0

\* No generate_signals call has been made.
NoCall ==
    /\ gen = "pending"
    /\ signals = <<>>

\* A provider with nothing to report: quiet bars under a tight spread.
StrategyInit ==
    /\ feed = [sym \in {"EURGBP", "XAUUSD", "GBPCAD"} |->
                    [fault |-> "none", spread |-> 10, bias4 |-> "flat",
                     bias1 |-> "flat", bar |-> "none", later |-> 0,
                     breaks |-> FALSE, echo |-> FALSE]]
    /\ NoCall

NoTick == [status |-> "none", signals |-> <<>>, planned_orders |-> <<>>,
           orders |-> <<>>]

NoArguments == [open |-> FALSE, execute_trades |-> FALSE, balance |-> 0]

\* The module as imported: no order time recorded, no call made yet.
TickInit(start) ==
    /\ mono = start
    /\ last_order_time = <<>>
    /\ tick = NoTick
    /\ call = NoArguments
    /\ placed = <<>>
    /\ tried = <<>>

Threads == {1, 2}

Resting == [at |-> "idle", today |-> 0, recent_pl |-> 0, last_pl |-> 0,
            kept |-> <<>>]

\* The engine's fields that a cycle ending at the market-hours guard writes.
Engine ==
    [last_day |-> last_day, start |-> start_of_day_equity,
     ledger |-> closed_trade_results, runs |-> recent_runs,
     last_summary |-> last_summary]

\* No invocation is under way.
OverlapInit ==
    /\ th = [t \in Threads |-> Resting]
    /\ before = Engine

\* generate_signal has not been called.
SignalInit ==
    /\ bars = "none"
    /\ signal = [side |-> "pending"]

\* No risk function has been called.
RiskInit ==
    /\ ask = [fn |-> "none"]
    /\ answer = [fn |-> "pending"]

\* Nobody has looked at the clock.
HoursInit ==
    /\ clock_utc = [wd |-> 0, hour |-> 0]
    /\ opened = [asked |-> FALSE]

PureInit == SignalInit /\ RiskInit /\ HoursInit

Init ==
    EngineInit /\ HistoryInit /\ StrategyInit /\ TickInit(0) /\ OverlapInit /\ PureInit

(***************************************************************************)
(* run_once, first phase: engine.py 181-285                                *)
(***************************************************************************)
\* How the first phase ends: "raise", a terminal reason, or "scan".
BeginOutcome(mo, fault, dayChanged, eq, start, ledger, count, cap) ==
    IF dayChanged /\ fault = "anchor" THEN "raise"
    ELSE IF ~mo THEN "market_closed"
    ELSE IF fault \in {"summary", "trades", "cantrade"} THEN "raise"
    ELSE EntryGate(eq, start, ledger, count, cap)

Begin(mo, sess, ledgerFault, fault) ==
    /\ pc = "idle"
    /\ fault = "anchor" => localDay # last_day
    /\ ~mo => fault \in {"none", "anchor"}
    /\ LET dayChanged == localDay # last_day
           anchorRaises == dayChanged /\ fault = "anchor"
           reread == dayChanged /\ ~anchorRaises
           start == IF reread THEN nav ELSE start_of_day_equity
           ledger == IF anchorRaises \/ ledgerFault
                     THEN closed_trade_results
                     ELSE update_closed_trades(closed_trade_results, acctPl)
           eq == nav
           ot == sinkTrades
           pr == compute_portfolio_risk(ot, eq)
           cap == get_effective_max_trades(pr, eq)
           out == BeginOutcome(mo, fault, dayChanged, eq, start, ledger,
                               Cardinality(ot), cap)
           summary == Summary(out, <<>>, FALSE, IF out = "market_closed" THEN 0 ELSE eq)
       IN /\ last_day' = localDay
          /\ start_of_day_equity' = start
          /\ closed_trade_results' = ledger
          /\ anchor_reread' = reread
          /\ stored_utc_day' = IF dayChanged THEN utcDay ELSE stored_utc_day
          /\ call_day' = <<utcDay, localDay>>
          /\ market_open' = mo
          /\ in_session' = sess
          /\ equity' = eq
          /\ open_trades' = ot
          /\ portfolio_risk' = pr
          /\ effective_max_trades' = cap
          /\ start_risk' = pr
          /\ start_count' = Cardinality(ot)
          /\ scanned' = NotScanned
          /\ surge_mode' = FALSE
          /\ candidate_list' = <<>>
          /\ idx' = 0
          /\ actions' = <<>>
          /\ orders' = <<>>
          /\ recent_trades' = <<>>
          /\ dd_halt_day' = IF out = "kill_switch_daily_drawdown_exceeded"
                            THEN <<utcDay, localDay>> ELSE dd_halt_day
          /\ IF out = "raise"
             THEN /\ result' = "raised"
                  /\ pc' = "done"
                  /\ recent_runs' = <<>>
                  /\ UNCHANGED last_summary
             ELSE IF out = "scan"
             THEN /\ result' = "none"
                  /\ pc' = "scan"
                  /\ recent_runs' = <<>>
                  /\ UNCHANGED last_summary
             ELSE /\ result' = "returned"
                  /\ pc' = "done"
                  /\ recent_runs' = record_run(<<>>, summary)
                  /\ last_summary' = summary
    /\ UNCHANGED <<envVars, outsideEngine>>

BeginCall ==
    \E mo \in BOOLEAN, sess \in BOOLEAN, ledgerFault \in BOOLEAN,
       fault \in {"none", "anchor", "summary", "trades", "cantrade"} :
        Begin(mo, sess, ledgerFault, fault)

(***************************************************************************)
(* run_once, second phase: the scan and the ranking, engine.py 287-392     *)
(***************************************************************************)
\* What generate_signal can hand back for one instrument.  A non-FLAT signal
\* carries a stop `dist` away from the last price; "error" stands for
\* get_candles or generate_signal raising (the pair is not analysed).
Analysis(vol, side, conf, score, dist) ==
    [error |-> FALSE, vol |-> vol, side |-> side, confidence |-> conf,
     opportunity_score |-> score, dist |-> dist]

AnalysisError == [error |-> TRUE, vol |-> 0, side |-> "FLAT", confidence |-> 0,
                  opportunity_score |-> 0, dist |-> 0]

Quiet == Analysis(2, "FLAT", 0, 0, 0)
HotFlat == Analysis(4, "FLAT", 0, 0, 0)
QuietLong == Analysis(2, "LONG", 22, 2, 1)
HotLong == Analysis(4, "LONG", 22, 2, 1)
HotShort == Analysis(4, "SHORT", 22, 3, 1)
HotLongWeak == Analysis(4, "LONG", 10, 4, 1)
HotLongWide == Analysis(4, "LONG", 22, 4, 30)
ExtremeLong == Analysis(6, "LONG", 25, 1, 1)
ExtremeShort == Analysis(6, "SHORT", 25, 5, 1)

Universe == Prefix(FOREX_PAIRS, MAX_PAIRS)

\* Mutant: the first failing pair ends the scan.
RECURSIVE AnalysesUntilError(_, _)
AnalysesUntilError(f, i) ==
    IF i > Len(Universe) \/ f[i].error THEN <<>>
    ELSE <<[pair |-> Universe[i], vol |-> f[i].vol, side |-> f[i].side,
            confidence |-> f[i].confidence,
            opportunity_score |-> f[i].opportunity_score,
            dist |-> f[i].dist]>>
         \o AnalysesUntilError(f, i + 1)

\* The analyses list: the analysed pairs in universe order, each tagged with
\* its pair.
RECURSIVE Analyses(_, _)
Analyses(f, i) ==
    IF i > Len(Universe) THEN <<>>
    ELSE (IF f[i].error THEN <<>>
          ELSE <<[pair |-> Universe[i], vol |-> f[i].vol, side |-> f[i].side,
                  confidence |-> f[i].confidence,
                  opportunity_score |-> f[i].opportunity_score,
                  dist |-> f[i].dist]>>)
         \o Analyses(f, i + 1)

Scan(f) ==
    /\ pc = "scan"
    /\ LET analyses == Analyses(f, 1)
           extreme_pairs == SelectSeq(analyses, IsExtreme)
           hot == SelectSeq(analyses, IsHot)
           out == ScanGate(in_session, extreme_pairs, hot)
           surge == ~in_session /\ extreme_pairs # <<>>
           summary == Summary(out, <<>>, surge, equity)
       IN /\ scanned' = [done |-> TRUE, hot |-> Len(hot),
                          extreme |-> Len(extreme_pairs), input |-> f]
          /\ surge_mode' = surge
          /\ IF out = "exec"
             THEN /\ candidate_list' = IF surge THEN SortedDesc(extreme_pairs)
                                       ELSE SortedDesc(hot)
                  /\ idx' = 1
                  /\ pc' = "exec"
                  /\ UNCHANGED <<last_summary, recent_runs, result>>
             ELSE /\ candidate_list' = <<>>
                  /\ idx' = 0
                  /\ pc' = "done"
                  /\ result' = "returned"
                  /\ last_summary' = summary
                  /\ recent_runs' = record_run(recent_runs, summary)
    /\ UNCHANGED <<envVars, outsideEngine, last_day, start_of_day_equity, recent_trades,
                   closed_trade_results, equity, open_trades, portfolio_risk,
                   effective_max_trades, in_session, actions, market_open,
                   orders, anchor_reread, stored_utc_day, call_day,
                   dd_halt_day, start_risk, start_count>>

(***************************************************************************)
(* run_once, third phase: one iteration of the execution loop,             *)
(* engine.py 395-532                                                       *)
(***************************************************************************)
\* Leave the iteration: go to the next candidate, or build the summary,
\* record it and return when the loop is over.
Advance(brk, acts, risk) ==
    IF ~brk /\ idx < Len(TopK(candidate_list))
    THEN /\ idx' = idx + 1
         /\ pc' = "exec"
         /\ UNCHANGED <<last_summary, recent_runs, result, candidate_list>>
    ELSE LET summary == Summary(IF acts # <<>> THEN "completed"
                                ELSE "no_valid_signals_in_hot_pairs",
                                acts, surge_mode, equity)
         IN /\ pc' = "done"
            /\ result' = "returned"
            /\ UNCHANGED <<idx, candidate_list>>
            /\ last_summary' = summary
            /\ recent_runs' = record_run(recent_runs, summary)

\* out: "ok", or the sink call that raises in this iteration.
Execute(out) ==
    /\ pc = "exec"
    /\ LET a == TopK(candidate_list)[idx]
           surge_for_this_pair == surge_mode /\ IsExtreme(a)
           units == IF surge_for_this_pair
                    THEN compute_position_size(equity * EXTREME_RISK_FACTOR, 10, a.dist)
                    ELSE compute_position_size(equity, 1, a.dist)
           signed == IF a.side = "SHORT" THEN -Abs(units) ELSE Abs(units)
           trade_risk_pct == compute_trade_risk_pct(a.dist, signed, equity)
           new_total_risk == portfolio_risk + trade_risk_pct
           skip == \/ \E t \in open_trades : t.instrument = a.pair
                   \/ a.side = "FLAT"
                   \/ a.confidence < CONFIDENCE_MIN
                   \/ would_stack_usd_exposure(a.pair, a.side, open_trades)
                   \/ units <= 0
                   \/ ExceedsCeiling(new_total_risk, equity)
           trade == [instrument |-> a.pair, units |-> signed, dist |-> a.dist]
           action_info == [pair |-> a.pair, side |-> a.side, units |-> signed,
                           risk |-> trade_risk_pct, surge_mode |-> surge_for_this_pair]
           order == [pair |-> a.pair, side |-> a.side, units |-> signed,
                     risk |-> trade_risk_pct, tracked |-> portfolio_risk,
                     reported |-> Cardinality(open_trades),
                     held |-> sinkTrades, rank |-> idx]
       IN IF skip \/ out = "order"
          THEN \* a gate skipped the candidate, or create_market_order raised
               /\ Advance(FALSE, actions, portfolio_risk)
               /\ UNCHANGED <<sinkTrades, orders, actions, recent_trades,
                              portfolio_risk, open_trades>>
          ELSE /\ sinkTrades' = sinkTrades \cup {trade}
               /\ orders' = Append(orders, order)
               /\ IF out = "exposure_query"
                  THEN \* get_open_trades raised while action_info was built
                       /\ Advance(FALSE, actions, portfolio_risk)
                       /\ UNCHANGED <<actions, recent_trades, portfolio_risk,
                                      open_trades>>
                  ELSE /\ actions' = Append(actions, action_info)
                       /\ recent_trades' = record_trade(recent_trades, action_info)
                       /\ portfolio_risk' = new_total_risk
                       /\ IF out = "refresh_query"
                          THEN \* the refresh of open_trades raised
                               /\ Advance(FALSE, actions', new_total_risk)
                               /\ UNCHANGED open_trades
                          ELSE /\ open_trades' = sinkTrades'
                               /\ Advance(ReachedMaxTrades(Cardinality(sinkTrades'),
                                                           effective_max_trades),
                                          actions', new_total_risk)
    /\ UNCHANGED <<outsideEngine, utcDay, localDay, nav, acctPl, last_day, start_of_day_equity,
                   closed_trade_results, equity, effective_max_trades,
                   in_session, surge_mode, market_open, anchor_reread,
                   stored_utc_day, call_day, dd_halt_day, start_risk, start_count,
                   scanned>>

ExecuteStep ==
    \E out \in {"ok", "order", "exposure_query", "refresh_query"} : Execute(out)

\* The caller takes the summary (or the exception); the call's locals are gone
\* and the engine sleeps until the next cycle (run_forever_blocking).
Exit ==
    /\ pc = "done"
    /\ pc' = "idle"
    /\ last_summary' = NoSummary
    /\ recent_runs' = <<>>
    /\ recent_trades' = <<>>
    /\ equity' = 0 /\ open_trades' = {} /\ portfolio_risk' = 0
    /\ effective_max_trades' = 0
    /\ in_session' = FALSE /\ surge_mode' = FALSE
    /\ candidate_list' = <<>> /\ idx' = 0 /\ actions' = <<>>
    /\ market_open' = FALSE /\ result' = "none" /\ orders' = <<>>
    /\ anchor_reread' = FALSE
    /\ call_day' = <<0, 0>>
    /\ start_risk' = 0 /\ start_count' = 0
    /\ scanned' = NotScanned
    /\ UNCHANGED <<envVars, outsideEngine, last_day, start_of_day_equity, closed_trade_results,
                   stored_utc_day, dd_halt_day>>

(***************************************************************************)
(* The world between two calls                                             *)
(***************************************************************************)
\* The UTC date and the host's local date advance separately and are never
\* more than one day apart.
TickUtc ==
    /\ pc = "idle"
    /\ utcDay < MaxDay /\ utcDay <= localDay
    /\ utcDay' = utcDay + 1
    /\ UNCHANGED <<localDay, nav, acctPl, sinkTrades, engineVars, localVars, ghostVars,
                   outsideEngine>>

TickLocal ==
    /\ pc = "idle"
    /\ localDay < MaxDay /\ localDay <= utcDay
    /\ localDay' = localDay + 1
    /\ UNCHANGED <<utcDay, nav, acctPl, sinkTrades, engineVars, localVars, ghostVars,
                   outsideEngine>>

\* The account's net asset value moves to another of the given levels.
NavMoveTo(levels) ==
    /\ pc = "idle"
    /\ \E v \in levels \ {nav} : nav' = v
    /\ UNCHANGED <<utcDay, localDay, acctPl, sinkTrades, engineVars, localVars, ghostVars,
                   outsideEngine>>

\* A fall of 6% (the daily drawdown limit) and back.
NavMove == NavMoveTo(NavLevels)

\* A fall of 4%: inside the drawdown limit, yet enough to carry two full-size
\* positions over the portfolio risk ceiling.
NavDip == NavMoveTo(DipLevels)

\* The engine has seen the account's current cumulative P/L.
Polled ==
    IF closed_trade_results = <<>> THEN acctPl = 0
    ELSE acctPl = closed_trade_results[Len(closed_trade_results)].cumulative_pl

\* An open trade closes (stop or target hit) with a realized loss or gain;
\* explored for at most one closing between two polls of the account.
CloseTrade ==
    /\ pc = "idle"
    /\ Len(closed_trade_results) < MaxLedger
    /\ Polled
    /\ \E t \in sinkTrades, d \in {-1, 1} :
          /\ sinkTrades' = sinkTrades \ {t}
          /\ acctPl' = acctPl + d
    /\ UNCHANGED <<utcDay, localDay, nav, engineVars, localVars, ghostVars,
                   outsideEngine>>

(***************************************************************************)
(* Specifications                                                          *)
(***************************************************************************)
\* Kill switches and gates: one tradeable cross, closings and equity moves.
GateChoices ==
    {<<Quiet, a, b, c>> : a \in {Quiet, ExtremeLong}, b \in {Quiet, ExtremeLong},
                          c \in {Quiet, HotLong, ExtremeLong}}
        \cup {[i \in 1..Len(Universe) |-> AnalysisError]}

Next ==
    \/ BeginCall
    \/ \E f \in GateChoices : Scan(f)
    \/ ExecuteStep
    \/ Exit
    \/ NavMove
    \/ CloseTrade

Spec == Init /\ [][Next]_vars

\* The daily anchor: the two dates advance, equity moves, one tradeable cross.
DayChoices ==
    {<<Quiet, Quiet, Quiet, c>> : c \in {Quiet, HotLong}}

NextDay ==
    \/ BeginCall
    \/ \E f \in DayChoices : Scan(f)
    \/ ExecuteStep
    \/ Exit
    \/ TickUtc
    \/ TickLocal
    \/ NavMove

SpecDay == Init /\ [][NextDay]_vars

\* The execution loop: every pair tradeable, both sides, normal and surge
\* sizes, weak and unsizeable signals; equity dips so that both open-trade
\* caps come into force.
ExecChoices ==
    {<<a, b, c, d>> : a \in {Quiet, HotLong, ExtremeLong},
                      b \in {Quiet, HotShort, ExtremeLong},
                      c \in {Quiet, HotLongWeak, ExtremeShort},
                      d \in {Quiet, HotLong, HotLongWide, ExtremeShort}}

NextExec ==
    \/ BeginCall
    \/ \E f \in ExecChoices : Scan(f)
    \/ ExecuteStep
    \/ Exit
    \/ NavDip

SpecExec == Init /\ [][NextExec]_vars

\* The scan: get_candles or generate_signal fails for any of the pairs.
ScanChoices ==
    {<<a, b, c, d>> : a \in {AnalysisError, HotLong, ExtremeLong},
                      b \in {AnalysisError, HotShort, Quiet},
                      c \in {AnalysisError, HotLongWeak},
                      d \in {AnalysisError, HotLong, ExtremeShort}}

NextScan ==
    \/ BeginCall
    \/ \E f \in ScanChoices : Scan(f)
    \/ ExecuteStep
    \/ Exit

SpecScan == Init /\ [][NextScan]_vars

(***************************************************************************)
(* The two rolling histories on their own: _record_run and _record_trade   *)
(* applied any number of times under each configured limit.  The entry     *)
(* handed in is its own sequence number, so a history shows which entries  *)
(* it kept and in what order.                                              *)
(***************************************************************************)
TradeLimits == {0, 1, 2, RECENT_TRADES_LIMIT}

InitHistory ==
    /\ EngineInit
    /\ StrategyInit
    /\ TickInit(0)
    /\ OverlapInit
    /\ PureInit
    /\ trades_limit \in TradeLimits
    /\ runs_recorded = 0
    /\ trades_recorded = 0

RecordRun ==
    /\ runs_recorded < MaxRuns
    /\ runs_recorded' = runs_recorded + 1
    /\ last_summary' = runs_recorded + 1
    /\ recent_runs' = record_run(recent_runs, runs_recorded + 1)
    /\ UNCHANGED <<envVars, localVars, ghostVars, last_day, start_of_day_equity,
                   recent_trades, closed_trade_results, trades_limit,
                   trades_recorded, strategyVars, tickVars, overlapVars, pureVars>>

RecordTrade ==
    /\ trades_recorded < MaxTrades
    /\ trades_recorded' = trades_recorded + 1
    /\ recent_trades' = record_trade_under(recent_trades, trades_recorded + 1,
                                           trades_limit)
    /\ UNCHANGED <<envVars, localVars, ghostVars, last_day, start_of_day_equity,
                   last_summary, recent_runs, closed_trade_results, trades_limit,
                   runs_recorded, strategyVars, tickVars, overlapVars, pureVars>>

NextHistory == RecordRun \/ RecordTrade

SpecHistory == InitHistory /\ [][NextHistory]_vars

(***************************************************************************)
(* Properties                                                              *)
(***************************************************************************)
Returned == pc = "done" /\ result = "returned"

Reason == last_summary.reason

\* The gate conditions of the finished call, read off its inputs.
DrawdownHit == (start_of_day_equity > 0)
               /\ (start_of_day_equity - equity) * 100
                      >= MAX_DRAWDOWN_PER_DAY * start_of_day_equity

LossStreak ==
    LET n == Len(closed_trade_results)
    IN /\ n >= KILL_SWITCH_CONSECUTIVE_LOSSES
       /\ \A i \in 1..n : i > n - KILL_SWITCH_CONSECUTIVE_LOSSES
                            => closed_trade_results[i].pl < 0

AtCap == start_count >= effective_max_trades

OffSession == ~in_session /\ scanned.extreme = 0

PastEntryGates == market_open /\ ~DrawdownHit /\ ~LossStreak /\ ~AtCap

\* C1 (as stated): the terminal reason is the first applicable gate in the
\* order market closed, drawdown, consecutive losses, max trades, volatility
\* floor, session, executed / no valid signals; so a call outside the session
\* in which no analysed pair reaches VOLATILITY_MIN_SCORE ends with
\* no_pairs_above_vol_threshold.
C1_VolFloorBeforeSession ==
    Returned =>
        /\ ~market_open => Reason = "market_closed"
        /\ market_open /\ DrawdownHit => Reason = "kill_switch_daily_drawdown_exceeded"
        /\ market_open /\ ~DrawdownHit /\ LossStreak
              => Reason = "kill_switch_consecutive_losses"
        /\ market_open /\ ~DrawdownHit /\ ~LossStreak /\ AtCap
              => Reason = "max_open_trades_reached"
        /\ PastEntryGates /\ scanned.hot = 0
              => Reason = "no_pairs_above_vol_threshold"
        /\ PastEntryGates /\ scanned.hot > 0 /\ OffSession
              => Reason = "outside_session_hours"
        /\ PastEntryGates /\ scanned.hot > 0 /\ ~OffSession
              => Reason = (IF actions # <<>> THEN "completed"
                           ELSE "no_valid_signals_in_hot_pairs")

\* C1 (amended): the terminal reason is the first applicable gate in the
\* order market closed, drawdown, consecutive losses, max trades, outside the
\* session without an extreme-volatility override, volatility floor, executed
\* / no valid signals; so a call outside the session in which no analysed pair
\* reaches VOLATILITY_MIN_SCORE ends with outside_session_hours.
C1_SessionBeforeVolFloor ==
    Returned =>
        /\ ~market_open => Reason = "market_closed"
        /\ market_open /\ DrawdownHit => Reason = "kill_switch_daily_drawdown_exceeded"
        /\ market_open /\ ~DrawdownHit /\ LossStreak
              => Reason = "kill_switch_consecutive_losses"
        /\ market_open /\ ~DrawdownHit /\ ~LossStreak /\ AtCap
              => Reason = "max_open_trades_reached"
        /\ PastEntryGates /\ OffSession
              => Reason = "outside_session_hours"
        /\ PastEntryGates /\ ~OffSession /\ scanned.hot = 0
              => Reason = "no_pairs_above_vol_threshold"
        /\ PastEntryGates /\ ~OffSession /\ scanned.hot > 0
              => Reason = (IF actions # <<>> THEN "completed"
                           ELSE "no_valid_signals_in_hot_pairs")
        /\ ~in_session /\ scanned.done /\ scanned.hot = 0
              => Reason = "outside_session_hours"

C1_Witness ==
    /\ Returned /\ scanned.done
    /\ ~in_session /\ scanned.hot = 0
    /\ Reason = "outside_session_hours"

\* C2: every call returns a summary with a terminal reason and appends
\* exactly one entry to the run history, whatever the sink calls do.
C2_AlwaysReturnsSummary ==
    pc = "done" =>
        /\ result = "returned"
        /\ Reason # "none"
        /\ Len(recent_runs) = 1

\* A state after a consecutive-loss halt in which the account holds no
\* position and the engine has seen its current cumulative P/L.
KillSwitchFrozen ==
    /\ pc \in {"idle", "done"}
    /\ LossStreak
    /\ sinkTrades = {}
    /\ Polled

\* C3: a halt ends the cycle, never the process: the engine reaches no state
\* in which a cycle has halted on the consecutive-loss switch and from which
\* no later cycle can pass that gate.  KillSwitchFrozen is such a state
\* (C3_FrozenForever: nothing the engine or the account does leaves it).
C3_HaltIsPerCycle ==
    ~(Returned /\ Reason = "kill_switch_consecutive_losses" /\ KillSwitchFrozen)

C3_FrozenForever == [][KillSwitchFrozen => KillSwitchFrozen']_vars

\* C6: with the market open and no drawdown halt, the call ends with the
\* consecutive-loss halt iff the ledger holds at least N entries and each of
\* the last N has a strictly negative delta.
C6_KillSwitchIff ==
    (Returned /\ market_open /\ ~DrawdownHit) =>
        LET n == Len(closed_trade_results)
        IN (Reason = "kill_switch_consecutive_losses")
             <=> (/\ n >= KILL_SWITCH_CONSECUTIVE_LOSSES
                  /\ \A k \in 0..(KILL_SWITCH_CONSECUTIVE_LOSSES - 1) :
                        closed_trade_results[n - k].pl < 0)

C6_Witness ==
    /\ Returned /\ market_open /\ ~DrawdownHit
    /\ Reason = "kill_switch_consecutive_losses"

\* A ledger long enough whose last N entries hold a gain does not halt.
C6_WitnessNoHalt ==
    /\ Returned /\ market_open /\ ~DrawdownHit
    /\ Len(closed_trade_results) > KILL_SWITCH_CONSECUTIVE_LOSSES
    /\ closed_trade_results[Len(closed_trade_results)].pl > 0
    /\ Reason # "kill_switch_consecutive_losses"

\* C4: once a call on day D has ended with the daily-drawdown halt, no later
\* call on the same day D submits an order, whatever equity it reads.
C4_HaltedForTheDay ==
    (pc # "idle" /\ call_day = dd_halt_day) => orders = <<>>

\* C5: a call re-reads the start-of-day anchor exactly when the UTC date
\* differs from the UTC date of the stored day, and no other call touches it.
C5_AnchorPerUtcDate ==
    [][(pc = "idle" /\ pc' # "idle" /\ result' # "raised") =>
          /\ anchor_reread' <=> (utcDay # stored_utc_day)
          /\ ~anchor_reread' => start_of_day_equity' = start_of_day_equity]_vars


(***************************************************************************)
(* The execution loop                                                      *)
(***************************************************************************)
OrderSet == {orders[i] : i \in 1..Len(orders)}

RECURSIVE SumOrderRisk(_)
SumOrderRisk(os) ==
    IF os = <<>> THEN 0 ELSE Head(os).risk + SumOrderRisk(Tail(os))

InLoop == pc = "exec" \/ (Returned /\ scanned.done /\ candidate_list # <<>>)

\* C7: an order is submitted only if the risk tracked so far in the cycle
\* plus the candidate's own risk is within MAX_TOTAL_PORTFOLIO_RISK, and the
\* tracked risk is the risk of the positions open at the start of the cycle
\* plus the risk of every order the sink has accepted since.
C7_TrackedRiskGate ==
    /\ \A o \in OrderSet :
          (o.tracked + o.risk) * 100 <= MAX_TOTAL_PORTFOLIO_RISK * equity
    /\ InLoop => portfolio_risk = start_risk + SumOrderRisk(orders)

\* C8: the cap in force is MAX_OPEN_TRADES, and MAX_OPEN_TRADES_EXTENDED
\* exactly while the portfolio risk is at or below MAX_TOTAL_PORTFOLIO_RISK;
\* no order is submitted while the number of open trades the sink last
\* reported is at or above that cap, and the loop never goes on to another
\* candidate once the reported number has reached it.
C8_OpenTradeCap ==
    /\ (market_open /\ pc # "idle" /\ result # "raised") =>
          effective_max_trades =
              IF start_risk * 100 <= MAX_TOTAL_PORTFOLIO_RISK * equity
              THEN MAX_OPEN_TRADES_EXTENDED ELSE MAX_OPEN_TRADES
    /\ \A o \in OrderSet : o.reported < effective_max_trades
    /\ pc = "exec" => Cardinality(open_trades) < effective_max_trades
    /\ (Returned /\ Reason = "max_open_trades_reached") =>
          start_count >= effective_max_trades

\* The count reaches the extended cap during execution and the cycle ends
\* there with one order.
C8_Witness ==
    /\ Returned /\ Reason = "completed"
    /\ Len(orders) = 1
    /\ start_count < effective_max_trades
    /\ Cardinality(open_trades) = effective_max_trades
    /\ idx < Len(TopK(candidate_list))

\* The base cap is in force and closes the cycle at the gate.
C8_BaseCapInForce ==
    /\ Returned /\ Reason = "max_open_trades_reached"
    /\ effective_max_trades = MAX_OPEN_TRADES
    /\ start_count = MAX_OPEN_TRADES

\* The number of open USD positions with the given USD direction.
UsdSameDirection(trades, dir) ==
    Cardinality({t \in trades :
                    /\ "USD" \in Range(CURRENCY_COMPONENTS[t.instrument])
                    /\ dir = IF (CURRENCY_COMPONENTS[t.instrument][1] = "USD")
                                 = (t.units > 0)
                             THEN "long_usd" ELSE "short_usd"})

UsdWithinLimit(trades) ==
    \A dir \in {"long_usd", "short_usd"} :
        UsdSameDirection(trades, dir) <= MAX_USD_DIRECTIONAL_TRADES

\* C9: the account starts without positions, and whenever the engine's view
\* of the open trades is what the sink holds (every accepted order has been
\* reported as an open trade), an order it submits leaves at most
\* MAX_USD_DIRECTIONAL_TRADES open USD positions in either USD direction;
\* this covers a second order in the same cycle.
C9_NoUsdStacking ==
    [][(sinkTrades' # sinkTrades /\ pc = "exec" /\ open_trades = sinkTrades
        /\ UsdWithinLimit(sinkTrades))
       => UsdWithinLimit(sinkTrades')]_vars

\* Two USD positions opened in one cycle, one in each USD direction.
C9_Witness ==
    /\ Returned
    /\ Len(orders) = 2
    /\ \A o \in OrderSet : "USD" \in Range(CURRENCY_COMPONENTS[o.pair])
    /\ open_trades = sinkTrades
    /\ UsdSameDirection(sinkTrades, "long_usd") = 1
    /\ UsdSameDirection(sinkTrades, "short_usd") = 1

Descending(list) ==
    \A i \in 1..Len(list) : \A j \in 1..Len(list) :
        i < j => list[i].opportunity_score >= list[j].opportunity_score

\* C10: the candidates are walked in descending opportunity-score order,
\* only the first VOLATILITY_TOP_K of them are considered, and at most
\* VOLATILITY_TOP_K orders are submitted in a cycle, in rank order.
C10_TopKOnly ==
    /\ Descending(candidate_list)
    /\ pc = "exec" => idx \in 1..VOLATILITY_TOP_K
    /\ Len(orders) <= VOLATILITY_TOP_K
    /\ \A o \in OrderSet : o.rank <= VOLATILITY_TOP_K
    /\ \A i \in 1..Len(orders) : \A j \in 1..Len(orders) :
          i < j => orders[i].rank < orders[j].rank
    /\ \A i \in 1..Len(orders) :
          /\ orders[i].rank \in 1..Len(candidate_list)
          /\ orders[i].pair = candidate_list[orders[i].rank].pair

\* Both of the first VOLATILITY_TOP_K candidates were skipped and the next
\* one, a tradeable signal on a pair with no open trade, was left alone.
C10_Witness ==
    /\ Returned /\ Reason = "no_valid_signals_in_hot_pairs"
    /\ orders = <<>>
    /\ Len(candidate_list) > VOLATILITY_TOP_K
    /\ LET a == candidate_list[VOLATILITY_TOP_K + 1]
       IN /\ a.side # "FLAT"
          /\ a.confidence >= CONFIDENCE_MIN
          /\ a.dist = 1
          /\ \A t \in sinkTrades : t.instrument # a.pair
          /\ sinkTrades = {}


\* C11: every order the sink accepted in the cycle is recorded: the cycle's
\* actions and the trade history hold one entry per accepted order, in the
\* order of submission, and each later candidate is judged against a
\* tracked risk that includes every order accepted before it, whatever a
\* later query of the sink in the same iteration did.
C11_AcceptedOrderRecorded ==
    InLoop =>
        /\ Len(actions) = Len(orders)
        /\ \A i \in 1..Len(orders) :
              /\ i <= Len(actions)
              /\ actions[i].pair = orders[i].pair
              /\ actions[i].units = orders[i].units
              /\ \E j \in 1..Len(recent_trades) :
                    recent_trades[j].pair = orders[i].pair
              /\ orders[i].tracked =
                    start_risk + SumOrderRisk(SubSeq(orders, 1, i - 1))


(***************************************************************************)
(* The rolling histories                                                   *)
(***************************************************************************)
\* The last n of the sequence numbers 1..count, in insertion order.
NewestOf(count, n) ==
    IF count <= n THEN [i \in 1..count |-> i]
    ELSE [i \in 1..n |-> count - n + i]

\* C12: the run history holds at most 100 summaries and the trade history at
\* most the configured limit of trades, whatever that limit (zero
\* included), and each is exactly the most recent entries in insertion
\* order.
C12_HistoriesBounded ==
    /\ Len(recent_runs) <= 100
    /\ recent_runs = NewestOf(runs_recorded, 100)
    /\ Len(recent_trades) <= trades_limit
    /\ recent_trades = NewestOf(trades_recorded, trades_limit)

\* The same with a limit of at least one.
C12_BoundedUnderPositiveLimit ==
    trades_limit > 0 => C12_HistoriesBounded


Failed == {i \in DOMAIN scanned.input : scanned.input[i].error}

Analysed == DOMAIN scanned.input \ Failed

CandidatePairs == {candidate_list[i].pair : i \in 1..Len(candidate_list)}

\* C16: when the analysis of some pairs fails during the scan, only those
\* pairs are dropped: the others are analysed and counted, the candidates
\* are exactly the analysed pairs above the threshold in force, no order is
\* sent for a failed pair, and the cycle returns with one of its normal
\* reasons.
C16_FailedPairOnlyDropped ==
    (scanned.done /\ Failed # {}) =>
       /\ scanned.hot = Cardinality({i \in Analysed : IsHot(scanned.input[i])})
       /\ scanned.extreme
             = Cardinality({i \in Analysed : IsExtreme(scanned.input[i])})
       /\ InLoop =>
             CandidatePairs
                = {Universe[i] : i \in
                     {n \in Analysed : IF surge_mode
                                        THEN IsExtreme(scanned.input[n])
                                        ELSE IsHot(scanned.input[n])}}
       /\ \A i \in Failed :
             /\ Universe[i] \notin CandidatePairs
             /\ \A n \in 1..Len(orders) : orders[n].pair # Universe[i]
       /\ result # "raised"
       /\ pc = "done" =>
             /\ result = "returned"
             /\ Reason \in {"outside_session_hours", "no_pairs_above_vol_threshold",
                            "completed", "no_valid_signals_in_hot_pairs"}

\* The first pair of the universe failed and a later pair was traded.
C16_Witness ==
    /\ Returned /\ scanned.done
    /\ 1 \in Failed
    /\ Reason = "completed"
    /\ \E n \in 1..Len(actions) : actions[n].pair # Universe[1]

\* The candidate of this iteration passes every gate before the order.
CandidatePasses ==
    LET a == TopK(candidate_list)[idx]
        surge_for_this_pair == surge_mode /\ IsExtreme(a)
        units == IF surge_for_this_pair
                 THEN compute_position_size(equity * EXTREME_RISK_FACTOR, 10, a.dist)
                 ELSE compute_position_size(equity, 1, a.dist)
        trade_risk_pct == compute_trade_risk_pct(a.dist, units, equity)
    IN /\ \A t \in open_trades : t.instrument # a.pair
       /\ a.side # "FLAT"
       /\ a.confidence >= CONFIDENCE_MIN
       /\ ~would_stack_usd_exposure(a.pair, a.side, open_trades)
       /\ units > 0
       /\ ~ExceedsCeiling(portfolio_risk + trade_risk_pct, equity)

\* C18: when create_market_order raises (the candidate passed every gate and
\* the sink took no trade), run_once adds an entry for the attempt to the
\* actions it returns and goes on with the loop.
C18_FailedOrderReported ==
    [][(pc = "exec" /\ CandidatePasses /\ sinkTrades' = sinkTrades) =>
          /\ Len(actions') = Len(actions) + 1
          /\ actions'[Len(actions')].pair = TopK(candidate_list)[idx].pair
          /\ pc' \in {"exec", "done"}]_vars

(***************************************************************************)
(* Two run_once invocations on one engine (a scheduled cycle and a manual  *)
(* trigger), each a weekend cycle: anchor refresh, ledger update, the      *)
(* market-hours guard, _record_run, return (engine.py 96-103, 116-121,     *)
(* 131-164, 180-199).  The engine holds no lock, so a thread may be        *)
(* switched out between any two of its reads and writes of the engine's    *)
(* fields.                                                                 *)
(***************************************************************************)
\* The summary of a cycle stopped by the market-hours guard, by the
\* invocation that built it (0: a cycle long finished).
WeekendSummary(t) ==
    [reason |-> "market_closed", actions |-> <<>>, surge_mode |-> FALSE,
     equity |-> 0, by |-> t]

FullHistory == [i \in 1..RECENT_RUNS_LIMIT |-> WeekendSummary(0)]

Baseline == <<[cumulative_pl |-> 0, pl |-> 0]>>

InitOverlap ==
    /\ utcDay = 0 /\ localDay \in {0, 1}
    /\ nav \in NavLevels
    /\ acctPl \in {-1, 0}
    /\ sinkTrades = {}
    /\ last_day = 0
    /\ start_of_day_equity = 1000
    /\ recent_runs \in {<<>>, FullHistory}
    /\ last_summary = IF recent_runs = <<>> THEN NoSummary ELSE WeekendSummary(0)
    /\ recent_trades = <<>>
    /\ closed_trade_results \in {<<>>, Baseline}
    /\ pc = "idle"
    /\ equity = 0 /\ open_trades = {} /\ portfolio_risk = 0
    /\ effective_max_trades = 0
    /\ in_session = FALSE /\ surge_mode = FALSE
    /\ candidate_list = <<>> /\ idx = 0 /\ actions = <<>>
    /\ market_open = FALSE /\ result = "none" /\ orders = <<>>
    /\ anchor_reread = FALSE
    /\ stored_utc_day = utcDay
    /\ call_day = <<0, 0>>
    /\ dd_halt_day = <<-1, -1>>
    /\ start_risk = 0 /\ start_count = 0
    /\ scanned = NotScanned
    /\ HistoryInit
    /\ StrategyInit
    /\ TickInit(0)
    /\ OverlapInit
    /\ PureInit

aside == <<envVars, localVars, ghostVars, historyVars, strategyVars, tickVars,
           pureVars, before, recent_trades>>

Goto(t, label) == th' = [th EXCEPT ![t].at = label]

\* run_once is entered.
Enter(t) ==
    /\ th[t].at = "idle"
    /\ Goto(t, "anchor")
    /\ UNCHANGED <<aside, engineVars>>

\* _refresh_daily_equity_anchor up to the call of _get_equity.
TestDay(t) ==
    /\ th[t].at = "anchor"
    /\ IF localDay # last_day
       THEN /\ last_day' = localDay
            /\ th' = [th EXCEPT ![t].at = "equity", ![t].today = localDay]
       ELSE /\ UNCHANGED last_day
            /\ th' = [th EXCEPT ![t].at = "account", ![t].today = localDay]
    /\ UNCHANGED <<aside, start_of_day_equity, last_summary, recent_runs,
                   closed_trade_results>>

\* _get_equity answers and the anchor is stored.
StoreAnchor(t) ==
    /\ th[t].at = "equity"
    /\ start_of_day_equity' = nav
    /\ Goto(t, "account")
    /\ UNCHANGED <<aside, last_day, last_summary, recent_runs,
                   closed_trade_results>>

\* _update_closed_trades: get_account_summary answers.
ReadAccount(t) ==
    /\ th[t].at = "account"
    /\ th' = [th EXCEPT ![t].at = "compare", ![t].recent_pl = acctPl]
    /\ UNCHANGED <<aside, engineVars>>

\* _update_closed_trades: the ledger's last entry is read and compared.
Compare(t) ==
    /\ th[t].at = "compare"
    /\ IF closed_trade_results = <<>>
       THEN Goto(t, "baseline")
       ELSE LET last_pl == closed_trade_results[Len(closed_trade_results)].cumulative_pl
            IN IF th[t].recent_pl # last_pl
               THEN th' = [th EXCEPT ![t].at = "append", ![t].last_pl = last_pl]
               ELSE Goto(t, "guard")
    /\ UNCHANGED <<aside, engineVars>>

\* _update_closed_trades: the append, of a closed trade or of the first entry.
AppendLedger(t) ==
    /\ th[t].at \in {"append", "baseline"}
    /\ closed_trade_results' =
          Append(closed_trade_results,
                 [cumulative_pl |-> th[t].recent_pl,
                  pl |-> IF th[t].at = "append" THEN th[t].recent_pl - th[t].last_pl
                         ELSE 0])
    /\ Goto(t, "guard")
    /\ UNCHANGED <<aside, last_day, start_of_day_equity, last_summary, recent_runs>>

\* The market is closed; _record_run stores the summary and appends it.
AppendRun(t) ==
    /\ th[t].at = "guard"
    /\ last_summary' = WeekendSummary(t)
    /\ recent_runs' = Append(recent_runs, WeekendSummary(t))
    /\ Goto(t, "trim")
    /\ UNCHANGED <<aside, last_day, start_of_day_equity, closed_trade_results>>

\* _record_run: the length test and the slice.
Slice100(t) ==
    /\ th[t].at = "trim"
    /\ IF Len(recent_runs) > RECENT_RUNS_LIMIT
       THEN th' = [th EXCEPT ![t].at = "store",
                             ![t].kept = LastN(recent_runs, RECENT_RUNS_LIMIT)]
       ELSE Goto(t, "done")
    /\ UNCHANGED <<aside, engineVars>>

\* _record_run: the slice is assigned; run_once returns.
StoreRuns(t) ==
    /\ th[t].at = "store"
    /\ recent_runs' = th[t].kept
    /\ th' = [th EXCEPT ![t].at = "done", ![t].kept = <<>>]
    /\ UNCHANGED <<aside, last_day, start_of_day_equity, last_summary,
                   closed_trade_results>>

NextOverlap ==
    \E t \in Threads :
       \/ Enter(t)
       \/ TestDay(t)
       \/ StoreAnchor(t)
       \/ ReadAccount(t)
       \/ Compare(t)
       \/ AppendLedger(t)
       \/ AppendRun(t)
       \/ Slice100(t)
       \/ StoreRuns(t)

SpecOverlap == InitOverlap /\ [][NextOverlap]_vars

\* The same cycle run alone, from entry to return.
weekend_cycle(e, t) ==
    [last_day |-> localDay,
     start |-> IF localDay # e.last_day THEN nav ELSE e.start,
     ledger |-> update_closed_trades(e.ledger, acctPl),
     runs |-> record_run(e.runs, WeekendSummary(t)),
     last_summary |-> WeekendSummary(t)]

BothReturned == \A t \in Threads : th[t].at = "done"

\* C19: when two overlapping run_once invocations have both returned, the
\* run history, the ledger, the daily anchor and the latest summary are what
\* the two cycles leave when run one after the other, in one order or the
\* other: no appended entry is lost and none is doubled.
C19_OverlapEqualsSerial ==
    BothReturned =>
       \/ Engine = weekend_cycle(weekend_cycle(before, 1), 2)
       \/ Engine = weekend_cycle(weekend_cycle(before, 2), 1)

(***************************************************************************)
(* The Liquidity Sweep strategy (src/liquidity_sweep_strategy.py).         *)
(*                                                                         *)
(* Prices are whole numbers of tenths of a pip of the instrument, so the   *)
(* pip factor of every instrument is PipPoints.  A candle is a record      *)
(* [timestamp, open, high, low, close]; a 5-minute timestamp counts        *)
(* 5-minute slots, Day5m of them to a calendar date.  A liquidity level    *)
(* carries twice its price (price2), the mean of two whole prices being a  *)
(* half.  Ratios are compared by cross-multiplication: min_wick_ratio is   *)
(* in percent, rr in tenths, max_spread in tenths of a pip.                *)
(***************************************************************************)
PipPoints == 10
Day5m == 288

Symbols == <<"EURGBP", "XAUUSD", "GBPCAD">>

PAIR_CONFIG ==
    [sym \in {"EURGBP", "XAUUSD", "GBPCAD"} |->
        CASE sym = "EURGBP" -> [max_spread |-> 25, min_wick_ratio |-> 35,
                                rr_default |-> 20, rr_premium |-> 25]
          [] sym = "XAUUSD" -> [max_spread |-> 350, min_wick_ratio |-> 30,
                                rr_default |-> 25, rr_premium |-> 30]
          [] sym = "GBPCAD" -> [max_spread |-> 40, min_wick_ratio |-> 35,
                                rr_default |-> 20, rr_premium |-> 25]]

Candle(t, o, h, l, c) ==
    [timestamp |-> t, open |-> o, high |-> h, low |-> l, close |-> c]

MaxOf(S) == CHOOSE x \in S : \A y \in S : x >= y
MinOf(S) == CHOOSE x \in S : \A y \in S : x <= y

\* candles[a:b] of Python for 0 <= a, as a 1-based subsequence.
Slice(s, a, b) ==
    IF a >= Len(s) \/ b <= a THEN <<>>
    ELSE SubSeq(s, a + 1, IF b > Len(s) THEN Len(s) ELSE b)

\* Lows that do not fall count as an uptrend.
up_trend_not_falling(swings) ==
    /\ Len(swings) >= 3
    /\ LET n == Len(swings)
       IN swings[n].low >= swings[n - 1].low /\ swings[n - 1].low >= swings[n - 2].low

_is_up_trend(swings) ==
    /\ Len(swings) >= 3
    /\ LET n == Len(swings)
       IN swings[n].low > swings[n - 1].low /\ swings[n - 1].low > swings[n - 2].low

_is_down_trend(swings) ==
    /\ Len(swings) >= 3
    /\ LET n == Len(swings)
       IN swings[n].high < swings[n - 1].high /\ swings[n - 1].high < swings[n - 2].high

\* The bars around position i (1-based) that a fractal of the given lookback
\* compares it with.
Neighbours(candles, i, lookback) ==
    {candles[j] : j \in ((i - lookback)..(i + lookback)) \ {i}}

IsSwingHigh(candles, i, lookback) ==
    \A x \in Neighbours(candles, i, lookback) : candles[i].high > x.high

IsSwingLow(candles, i, lookback) ==
    \A x \in Neighbours(candles, i, lookback) : candles[i].low < x.low

\* for i in range(lookback, n - lookback), the qualifying bars in order.
RECURSIVE SwingsFrom(_, _, _, _)
SwingsFrom(candles, i, lookback, high) ==
    IF i > Len(candles) - lookback THEN <<>>
    ELSE (IF (IF high THEN IsSwingHigh(candles, i, lookback)
              ELSE IsSwingLow(candles, i, lookback))
          THEN <<candles[i]>> ELSE <<>>)
         \o SwingsFrom(candles, i + 1, lookback, high)

_find_swings(candles, lookback) ==
    [highs |-> SwingsFrom(candles, lookback + 1, lookback, TRUE),
     lows |-> SwingsFrom(candles, lookback + 1, lookback, FALSE)]

\* _compute_bias_4h and _compute_bias_1h are the same function.
compute_bias(candles) ==
    IF Len(candles) < 20 THEN "range"
    ELSE LET swings == _find_swings(candles, 2)
             bullish == _is_up_trend(swings.lows)
             bearish == _is_down_trend(swings.highs)
         IN IF bullish /\ ~bearish THEN "bullish"
            ELSE IF bearish /\ ~bullish THEN "bearish"
            ELSE "range"

_compute_bias_4h(candles_4h) == compute_bias(candles_4h)

_compute_bias_1h(candles_1h) == compute_bias(candles_1h)

DateOf(c) == c.timestamp \div Day5m

NoLevels == [found |-> FALSE, high |-> 0, low |-> 0]

\* High and low of the date before the latest date in the window.
_previous_day_high_low(candles_5m) ==
    LET dates == {DateOf(candles_5m[i]) : i \in 1..Len(candles_5m)}
    IN IF Cardinality(dates) < 2 THEN NoLevels
       ELSE LET prev_date == MaxOf(dates \ {MaxOf(dates)})
                day == {candles_5m[i] : i \in {j \in 1..Len(candles_5m) :
                                                  DateOf(candles_5m[j]) = prev_date}}
            IN [found |-> TRUE, high |-> MaxOf({c.high : c \in day}),
                low |-> MinOf({c.low : c \in day})]

LiquidityLevel(price2, kind) == [price2 |-> price2, kind |-> kind]

RECURSIVE SumRange(_, _)
SumRange(candles, i) ==
    IF i > Len(candles) THEN 0
    ELSE candles[i].high - candles[i].low + SumRange(candles, i + 1)

\* Neighbouring highs (high = TRUE) or lows within tol = avg_range *
\* threshold_ratio of each other, tol being total * 20 / (n * 100).
RECURSIVE EqualFrom(_, _, _, _)
EqualFrom(candles, i, total, high) ==
    IF i > Len(candles) THEN <<>>
    ELSE LET a == IF high THEN candles[i].high ELSE candles[i].low
             b == IF high THEN candles[i - 1].high ELSE candles[i - 1].low
         IN (IF Abs(a - b) * Len(candles) * 100 <= total * 20
             THEN <<LiquidityLevel(a + b, IF high THEN "EQH" ELSE "EQL")>>
             ELSE <<>>)
            \o EqualFrom(candles, i + 1, total, high)

_equal_levels(candles_5m) ==
    IF Len(candles_5m) < 10 THEN <<>>
    ELSE LET total == SumRange(candles_5m, 1)
         IN IF total <= 0 THEN <<>>
            ELSE EqualFrom(candles_5m, 2, total, TRUE)
                 \o EqualFrom(candles_5m, 2, total, FALSE)

\* The levels with the equal highs and lows ahead of the previous day's.
levels_equal_first(candles_5m) ==
    LET pd == IF candles_5m = <<>> THEN NoLevels
              ELSE _previous_day_high_low(candles_5m)
    IN _equal_levels(candles_5m)
       \o (IF pd.found
           THEN <<LiquidityLevel(2 * pd.high, "PDH"), LiquidityLevel(2 * pd.low, "PDL")>>
           ELSE <<>>)

_build_liquidity_levels(candles_5m) ==
    LET pd == IF candles_5m = <<>> THEN NoLevels
              ELSE _previous_day_high_low(candles_5m)
    IN (IF pd.found
        THEN <<LiquidityLevel(2 * pd.high, "PDH"), LiquidityLevel(2 * pd.low, "PDL")>>
        ELSE <<>>)
       \o _equal_levels(candles_5m)

NoSweep == [found |-> FALSE]

SweepResult(candle, level, side) ==
    [found |-> TRUE, candle |-> candle, level |-> level, side |-> side]

\* The first level of the list that the predicate accepts, or none.
FirstLevel(levels, Hit(_)) ==
    LET hits == {i \in 1..Len(levels) : Hit(levels[i])}
    IN IF hits = {} THEN 0 ELSE MinOf(hits)

_detect_sweep(candles_5m, levels, bias, cfg) ==
    IF candles_5m = <<>> \/ levels = <<>> THEN NoSweep
    ELSE LET last == candles_5m[Len(candles_5m)]
             rng == last.high - last.low
             upper_wick == last.high - MaxOf({last.open, last.close})
             lower_wick == MinOf({last.open, last.close}) - last.low
             Below(level) == 2 * last.low < level.price2 /\ level.price2 <= 2 * last.close
             Above(level) == 2 * last.high > level.price2 /\ level.price2 >= 2 * last.close
             lo == FirstLevel(levels, Below)
             hi == FirstLevel(levels, Above)
         IN IF rng <= 0 THEN NoSweep
            ELSE IF bias = "bullish" /\ lower_wick * 100 >= cfg.min_wick_ratio * rng
                    /\ lo # 0
            THEN SweepResult(last, levels[lo], "long")
            ELSE IF bias = "bearish" /\ upper_wick * 100 >= cfg.min_wick_ratio * rng
                    /\ hi # 0
            THEN SweepResult(last, levels[hi], "short")
            ELSE NoSweep

\* A break of the minor structure by any bar of the window, before the sweep
\* bar or after it.
bos_anywhere(candles_5m, sweep) ==
    IF Len(candles_5m) < 10 THEN FALSE
    ELSE LET same == {i \in 1..Len(candles_5m) :
                         candles_5m[i].timestamp = sweep.candle.timestamp}
         IN IF same = {} THEN FALSE
            ELSE LET at == MinOf(same) - 1
                     lookback == Slice(candles_5m, MaxOf({0, at - 3}), at)
                 IN IF lookback = <<>> THEN FALSE
                    ELSE IF sweep.side = "long"
                    THEN \E i \in 1..Len(candles_5m) :
                            candles_5m[i].high > MaxOf({lookback[j].high : j \in 1..Len(lookback)})
                    ELSE \E i \in 1..Len(candles_5m) :
                            candles_5m[i].low < MinOf({lookback[j].low : j \in 1..Len(lookback)})

_confirm_bos(candles_5m, sweep) ==
    IF Len(candles_5m) < 10 THEN FALSE
    ELSE LET same == {i \in 1..Len(candles_5m) :
                         candles_5m[i].timestamp = sweep.candle.timestamp}
         IN IF same = {} THEN FALSE
            ELSE LET at == MinOf(same) - 1
                     lookback == Slice(candles_5m, MaxOf({0, at - 3}), at)
                     later == Slice(candles_5m, at + 1, Len(candles_5m))
                 IN IF lookback = <<>> THEN FALSE
                    ELSE IF sweep.side = "long"
                    THEN \E i \in 1..Len(later) :
                            later[i].high > MaxOf({lookback[j].high : j \in 1..Len(lookback)})
                    ELSE \E i \in 1..Len(later) :
                            later[i].low < MinOf({lookback[j].low : j \in 1..Len(lookback)})

\* The default tier whatever the level.
rr_default_always(symbol, sweep) == PAIR_CONFIG[symbol].rr_default

_choose_rr(symbol, sweep) ==
    IF sweep.level.kind \in {"PDH", "PDL"} THEN PAIR_CONFIG[symbol].rr_premium
    ELSE PAIR_CONFIG[symbol].rr_default

\* The stop on the sweep bar's own extreme, without the buffer.
sl_tp_on_the_wick(entry, side, sweep, rr, buffer_points) ==
    IF side = "long"
    THEN LET sl == sweep.candle.low
         IN [sl |-> sl, tp10 |-> 10 * entry + (entry - sl) * rr]
    ELSE LET sl == sweep.candle.high
         IN [sl |-> sl, tp10 |-> 10 * entry - (sl - entry) * rr]

\* sl, and ten times tp (rr is in tenths).
_calc_sl_tp(entry, side, sweep, rr, buffer_points) ==
    IF side = "long"
    THEN LET sl == sweep.candle.low - buffer_points
         IN [sl |-> sl, tp10 |-> 10 * entry + (entry - sl) * rr]
    ELSE LET sl == sweep.candle.high + buffer_points
         IN [sl |-> sl, tp10 |-> 10 * entry - (sl - entry) * rr]

Signal(symbol, side, entry, stop_loss, tp10, rr, kind) ==
    [symbol |-> symbol, side |-> side, entry |-> entry, stop_loss |-> stop_loss,
     take_profit10 |-> tp10, rr |-> rr, level |-> kind]

\* What the Market Data Provider answers for one symbol: the spread, or
\* "raise"; the three candle lists, or "raise" in their place.
MarketData(spread, candles_4h, candles_1h, candles_5m) ==
    [spread |-> spread, failed |-> FALSE,
     candles_4h |-> candles_4h, candles_1h |-> candles_1h, candles_5m |-> candles_5m]

SpreadRaises == [spread |-> "raise", failed |-> TRUE,
                 candles_4h |-> <<>>, candles_1h |-> <<>>, candles_5m |-> <<>>]

CandlesRaise == [spread |-> 0, failed |-> TRUE,
                 candles_4h |-> <<>>, candles_1h |-> <<>>, candles_5m |-> <<>>]

Raises(data) == data.failed

\* One turn of the loop of generate_signals for data that does not raise:
\* the signals it appends (none or one).
symbol_signals(symbol, data) ==
    LET cfg == PAIR_CONFIG[symbol]
        bias_4h == _compute_bias_4h(data.candles_4h)
        bias_1h == _compute_bias_1h(data.candles_1h)
        levels == _build_liquidity_levels(data.candles_5m)
        sweep == _detect_sweep(data.candles_5m, levels, bias_4h, cfg)
        last == data.candles_5m[Len(data.candles_5m)]
        rr == _choose_rr(symbol, sweep)
        st == _calc_sl_tp(last.close, sweep.side, sweep, rr, 3 * PipPoints)
    IN IF data.spread > cfg.max_spread THEN <<>>
       ELSE IF Len(data.candles_4h) < 30 \/ Len(data.candles_1h) < 30
               \/ Len(data.candles_5m) < 50 THEN <<>>
       ELSE IF bias_4h = "range" THEN <<>>
       ELSE IF symbol \in {"EURGBP", "GBPCAD"} /\ bias_1h # bias_4h THEN <<>>
       ELSE IF ~sweep.found THEN <<>>
       ELSE IF ~_confirm_bos(data.candles_5m, sweep) THEN <<>>
       ELSE <<Signal(symbol, sweep.side, last.close, st.sl, st.tp10, rr,
                     sweep.level.kind)>>

\* generate_signals over the three symbols in order; a provider call that
\* raises is not caught and ends the whole call.
RECURSIVE generate_from(_, _)
generate_from(market, i) ==
    IF i > Len(Symbols) THEN [raised |-> FALSE, signals |-> <<>>]
    ELSE IF Raises(market[Symbols[i]]) THEN [raised |-> TRUE, signals |-> <<>>]
    ELSE LET rest == generate_from(market, i + 1)
         IN [raised |-> rest.raised,
             signals |-> IF rest.raised THEN <<>>
                         ELSE symbol_signals(Symbols[i], market[Symbols[i]])
                              \o rest.signals]

generate_signals(market) == generate_from(market, 1)


(***************************************************************************)
(* Market data.  What the provider answers for a symbol is described by a  *)
(* scene, and DataOf builds the candle lists of the scene: 30 bars of      *)
(* each higher timeframe, and a 5-minute window of 24 bars of the previous *)
(* date, 27 quiet bars of the current date, the bar under study (`bar`),   *)
(* `later` bars after it, and, when `echo` is set, the bar under study     *)
(* once more at the end (a provider that repeats a bar).                   *)
(***************************************************************************)
HtfBars == 30
PrevDayBars == 24
QuietBars == 27

\* Rising bars with a dip every fifth bar: swing lows that climb, no swing
\* high.
UpTrend ==
    [i \in 1..HtfBars |->
        LET l == 1000 + 10 * i - (IF i % 5 = 3 THEN 100 ELSE 0)
        IN Candle(i, l + 10, l + 50, l, l + 40)]

\* Falling bars with a spike every fifth bar: swing highs that fall, no
\* swing low.
DownTrend ==
    [i \in 1..HtfBars |->
        LET h == 2000 - 10 * i + (IF i % 5 = 3 THEN 100 ELSE 0)
        IN Candle(i, h - 10, h, h - 50, h - 40)]

FlatBars == [i \in 1..HtfBars |-> Candle(i, 1500, 1550, 1450, 1500)]

Htf(trend) ==
    CASE trend = "up" -> UpTrend
      [] trend = "down" -> DownTrend
      [] OTHER -> FlatBars

\* The previous date trades between 4950 and 5050, the current date between
\* 4980 and 5020.
PrevDay == [i \in 1..PrevDayBars |->
               Candle(Day5m - PrevDayBars + i - 1, 5000, 5050, 4950, 5000)]

Quiet5m == [i \in 1..QuietBars |-> Candle(Day5m + i - 1, 5000, 5020, 4980, 5000)]

\* The bar under study, at slot t.
StudyBar(shape, t) ==
    CASE shape = "pdl" -> Candle(t, 4990, 5000, 4930, 4995)
      [] shape = "eql" -> Candle(t, 4990, 5000, 4960, 4995)
      [] shape = "pdh" -> Candle(t, 5010, 5070, 5000, 5005)
      [] shape = "weak" -> Candle(t, 5000, 5000, 4930, 4950)
      [] shape = "flat" -> Candle(t, 5000, 5000, 5000, 5000)
      [] shape = "eqh" -> Candle(t, 5010, 5030, 5000, 5005)
      [] shape = "edge" -> Candle(t, 4935, 5000, 4900, 4960)
      [] shape = "short_of" -> Candle(t, 4934, 5000, 4900, 4960)
      [] shape = "at_close" -> Candle(t, 4945, 4960, 4900, 4950)
      [] shape = "at_low" -> Candle(t, 4970, 4980, 4950, 4975)
      [] OTHER -> Candle(t, 5000, 5020, 4985, 5000)

\* A bar after the bar under study; the last one breaks the structure of the
\* three bars before the bar under study (upward, or downward after "pdh")
\* when `breaks` is set.
LaterBar(shape, t, breaking) ==
    IF ~breaking THEN Candle(t, 5000, 5010, 4990, 5005)
    ELSE IF shape = "pdh" THEN Candle(t, 5000, 5010, 4970, 4995)
    ELSE Candle(t, 5000, 5030, 4995, 5025)

Window5m(scene) ==
    LET t0 == Day5m + QuietBars
    IN PrevDay \o Quiet5m \o <<StudyBar(scene.bar, t0)>>
       \o [i \in 1..scene.later |->
             LaterBar(scene.bar, t0 + i, scene.breaks /\ i = scene.later)]
       \o (IF scene.echo THEN <<StudyBar(scene.bar, t0)>> ELSE <<>>)

Scene(fault, spread, bias4, bias1, bar, later, breaks, echo) ==
    [fault |-> fault, spread |-> spread, bias4 |-> bias4, bias1 |-> bias1,
     bar |-> bar, later |-> later, breaks |-> breaks, echo |-> echo]

DataOf(scene) ==
    IF scene.fault = "spread" THEN SpreadRaises
    ELSE IF scene.fault = "candles" THEN CandlesRaise
    ELSE MarketData(scene.spread, Htf(scene.bias4), Htf(scene.bias1), Window5m(scene))


(***************************************************************************)
(* generate_signals on its own, applied to every window of a family.       *)
(***************************************************************************)
MaxLater == 2

Calm == Scene("none", 10, "flat", "flat", "none", 0, FALSE, FALSE)

StrategyScenes ==
    {Scene("none", spread, bias4, bias1, bar, later, breaks, echo) :
        spread \in {10, 30}, bias4 \in {"up", "down", "flat"},
        bias1 \in {"up", "down"},
        bar \in {"pdl", "eql", "pdh", "weak", "flat", "none"},
        later \in 0..MaxLater, breaks \in BOOLEAN, echo \in BOOLEAN}

RepeatedLong == Scene("none", 10, "up", "down", "pdl", 1, TRUE, TRUE)

InitStrategy ==
    /\ EngineInit
    /\ HistoryInit
    /\ feed \in {[sym \in {"EURGBP", "XAUUSD", "GBPCAD"} |->
                      CASE sym = "EURGBP" -> a
                        [] sym = "XAUUSD" -> b
                        [] OTHER -> Calm] :
                   a \in StrategyScenes, b \in {Calm, RepeatedLong}}
    /\ NoCall
    /\ TickInit(0)
    /\ OverlapInit
    /\ PureInit

Generate ==
    /\ gen = "pending"
    /\ LET out == generate_signals([sym \in DOMAIN feed |-> DataOf(feed[sym])])
       IN /\ gen' = IF out.raised THEN "raised" ELSE "returned"
          /\ signals' = out.signals
    /\ UNCHANGED <<envVars, engineVars, localVars, ghostVars, historyVars, feed,
                   tickVars, overlapVars, pureVars>>

NextStrategy == Generate

SpecStrategy == InitStrategy /\ [][NextStrategy]_vars

\* The 5-minute window holds a bar (at position i) that sweeps the
\* previous-day low with a lower wick of at least the instrument's minimum
\* and closes back above it, and a later bar that breaks the high of the
\* three bars before it; the timestamps of the window are all different.
SweptThenBroke(symbol, window, i) ==
    LET b == window[i]
        pd == _previous_day_high_low(window)
    IN /\ i > 3
       /\ pd.found
       /\ b.high > b.low
       /\ b.low < pd.low /\ pd.low <= b.close
       /\ (MinOf({b.open, b.close}) - b.low) * 100
             >= PAIR_CONFIG[symbol].min_wick_ratio * (b.high - b.low)
       /\ \E j \in (i + 1)..Len(window) :
             window[j].high > MaxOf({window[i - 1].high, window[i - 2].high,
                                     window[i - 3].high})
       /\ \A m \in 1..Len(window) : \A n \in 1..Len(window) :
             m # n => window[m].timestamp # window[n].timestamp

\* C20: for an EURGBP input with bullish 4H and 1H bias whose 5-minute
\* window holds a sweep of the previous-day low followed by a break of the
\* pre-sweep three-bar high, generate_signals returns exactly one EURGBP
\* signal: long, stop below the sweep bar's low, RR of the default tier.
C20_SweepThenBreakGivesLong ==
    LET data == DataOf(feed["EURGBP"])
        mine == SelectSeq(signals, LAMBDA sg : sg.symbol = "EURGBP")
    IN (/\ gen = "returned"
        /\ data.spread <= PAIR_CONFIG["EURGBP"].max_spread
        /\ compute_bias(data.candles_4h) = "bullish"
        /\ compute_bias(data.candles_1h) = "bullish")
       => \A i \in 1..Len(data.candles_5m) :
             SweptThenBroke("EURGBP", data.candles_5m, i)
             => /\ Len(mine) = 1
                /\ mine[1].side = "long"
                /\ mine[1].stop_loss < data.candles_5m[i].low
                /\ mine[1].rr = PAIR_CONFIG["EURGBP"].rr_default


(***************************************************************************)
(* forexbot_core.py: the Liquidity engine's run_tick.                      *)
(***************************************************************************)
SYMBOL_COOLDOWN_SECONDS == 300
MAX_UNITS_FX == 2000
MAX_UNITS_XAU == 20
RISK_PCT_PER_TRADE10 == 5          \* 0.5 percent, in tenths of a percent

\* A mis-translation of the market-hours guard: only Saturday is closed.
open_except_saturday(now_utc) == now_utc.wd # 5

\* Mon=0 ... Sun=6; closed from Friday 22:00 UTC to Sunday 22:00 UTC.
_is_forex_market_open(now_utc) ==
    IF now_utc.wd = 5 THEN FALSE
    ELSE IF now_utc.wd = 6 /\ now_utc.hour < 22 THEN FALSE
    ELSE IF now_utc.wd = 4 /\ now_utc.hour >= 22 THEN FALSE
    ELSE TRUE

\* Price points in a thousandth of a unit of price: a unit is 100000 points
\* for the FX pairs (pip 0.0001) and 1000 points for XAUUSD (pip 0.01).
PointsPerMille(symbol) == IF symbol = "XAUUSD" THEN 1 ELSE 100

\* A mis-translation of _calc_position_size: the final max(size, 0.0) is
\* left out.
size_unclamped(balance, risk10, entry, stop_loss, symbol) ==
    LET stop_distance == Abs(entry - stop_loss)
    IN  IF stop_distance <= 0 THEN 0
        ELSE TruncDiv(balance * risk10 * PointsPerMille(symbol), stop_distance)

\* int(_calc_position_size(...)): the risk amount over the stop distance,
\* truncated.  risk10 is the risk in tenths of a percent, prices in points.
_calc_position_size(balance, risk10, entry, stop_loss, symbol) ==
    LET stop_distance == IF entry >= stop_loss THEN entry - stop_loss
                         ELSE stop_loss - entry
    IN IF stop_distance <= 0 THEN 0
       ELSE LET size == (balance * risk10 * PointsPerMille(symbol))
                           \div stop_distance
            IN IF size > 0 THEN size ELSE 0

max_units(symbol) == IF symbol = "XAUUSD" THEN MAX_UNITS_XAU ELSE MAX_UNITS_FX

\* A mis-translation of the ceiling: the size goes through as computed.
uncapped(units, symbol) == units

capped(units, symbol) == IF units > max_units(symbol) THEN max_units(symbol) ELSE units

signed(units, side) == IF side = "short" THEN -units ELSE units

\* dict.get(key, default) and dict[key] = value
Get(d, key, default) == IF key \in DOMAIN d THEN d[key] ELSE default

Put(d, key, value) == [x \in DOMAIN d \cup {key} |-> IF x = key THEN value ELSE d[x]]

cooldown_off(lot, symbol, now_ts) == FALSE

\* The duplicate / cooldown guard.
in_cooldown(lot, symbol, now_ts) ==
    now_ts - Get(lot, symbol, 0) < SYMBOL_COOLDOWN_SECONDS

plan_payload(sig, units) ==
    [symbol |-> sig.symbol, side |-> sig.side, units |-> units,
     entry |-> sig.entry, stop_loss |-> sig.stop_loss,
     take_profit10 |-> sig.take_profit10, rr |-> sig.rr, level |-> sig.level]

with_response(plan, response) ==
    [symbol |-> plan.symbol, side |-> plan.side, units |-> plan.units,
     entry |-> plan.entry, stop_loss |-> plan.stop_loss,
     take_profit10 |-> plan.take_profit10, rr |-> plan.rr, level |-> plan.level,
     response |-> response]

stamp_on_success_only(lot, symbol, now_ts, outcome) ==
    IF outcome = "raise" THEN lot ELSE Put(lot, symbol, now_ts)

\* _last_order_time[sig.symbol] = monotonic(), on both branches of the try.
stamped(lot, symbol, now_ts, outcome) == Put(lot, symbol, now_ts)

\* The try block around place_order: the call takes `lag' seconds and either
\* returns the sink's answer ("filled", or "rejected" when the sink answers
\* with an error of its own) or raises, in which case the response is the
\* error marker.
place(plan, outcome, lag, st) ==
    LET done == st.clock + lag
        response == IF outcome = "raise" THEN "error" ELSE outcome
    IN [st EXCEPT !.clock = done,
                  !.lot = stamped(st.lot, plan.symbol, done, outcome),
                  !.orders = Append(st.orders, with_response(plan, response)),
                  !.placed = Append(st.placed, [symbol |-> plan.symbol,
                                                units |-> plan.units,
                                                outcome |-> outcome]),
                  !.tried = Put(st.tried, plan.symbol, done)]

dispatch_always(execute_trades, plan, outcome, lag, st) == place(plan, outcome, lag, st)

dispatch(execute_trades, plan, outcome, lag, st) ==
    IF execute_trades THEN place(plan, outcome, lag, st) ELSE st

\* One turn of the loop over the signals.
tick_step(sig, args, st) ==
    LET listed == [st EXCEPT !.signals = Append(st.signals, sig)]
        units == _calc_position_size(args.balance, args.risk10, sig.entry,
                                     sig.stop_loss, sig.symbol)
    IN IF units <= 0 THEN listed
       ELSE IF in_cooldown(st.lot, sig.symbol, st.clock) THEN listed
       ELSE LET plan == plan_payload(sig, signed(capped(units, sig.symbol), sig.side))
                planned == [listed EXCEPT
                               !.planned_orders = Append(listed.planned_orders, plan)]
            IN dispatch(args.execute_trades, plan, args.outcome[sig.symbol],
                        args.lag, planned)

RECURSIVE tick_loop(_, _, _, _)
tick_loop(sigs, i, args, st) ==
    IF i > Len(sigs) THEN st
    ELSE tick_loop(sigs, i + 1, args, tick_step(sigs[i], args, st))

\* run_tick as its caller sees it, with what it leaves behind; `out' is what
\* generate_signals does when it is called.
run_tick(out, lot, clock, attempts, args) ==
    LET fresh == [signals |-> <<>>, planned_orders |-> <<>>, orders |-> <<>>,
                  lot |-> lot, clock |-> clock, placed |-> <<>>,
                  tried |-> attempts]
    IN IF ~_is_forex_market_open(args.now)
       THEN [status |-> "returned", asked |-> FALSE, generated |-> <<>>, st |-> fresh]
       ELSE IF out.raised
       THEN [status |-> "raised", asked |-> TRUE, generated |-> <<>>, st |-> fresh]
       ELSE [status |-> "returned", asked |-> TRUE, generated |-> out.signals,
             st |-> tick_loop(out.signals, 1, args, fresh)]

(***************************************************************************)
(* The Liquidity engine at work: the clock runs, the market moves, and the *)
(* dashboard's handler calls run_tick.                                     *)
(***************************************************************************)
ClockStep == 150
MaxClock == 600

Wednesday == [wd |-> 2, hour |-> 12]
Saturday == [wd |-> 5, hour |-> 12]
TickTimes == {Wednesday, Saturday}

SweepLong == Scene("none", 10, "up", "up", "pdl", 1, TRUE, TRUE)
SweepShort == Scene("none", 10, "down", "down", "pdh", 1, TRUE, TRUE)
SpreadDown == Scene("spread", 10, "up", "up", "pdl", 1, TRUE, TRUE)
CandlesDown == Scene("candles", 10, "up", "up", "pdl", 1, TRUE, TRUE)

TickFeeds ==
    {[sym \in {"EURGBP", "XAUUSD", "GBPCAD"} |->
         CASE sym = "EURGBP" -> a
           [] sym = "XAUUSD" -> b
           [] OTHER -> Calm] :
     a \in {Calm, SweepLong, SweepShort, SpreadDown, CandlesDown},
     b \in {Calm, RepeatedLong}}

\* What generate_signals does under each of the feeds.
Generated ==
    [f \in TickFeeds |-> generate_signals([sym \in DOMAIN f |-> DataOf(f[sym])])]

Balances == {0, 100, 10000}

Outcomes == {"filled", "rejected", "raise"}

InitLiq ==
    /\ EngineInit
    /\ HistoryInit
    /\ StrategyInit
    /\ TickInit(0)
    /\ OverlapInit
    /\ PureInit

Elapse ==
    /\ mono < MaxClock
    /\ mono' = mono + ClockStep
    /\ UNCHANGED <<envVars, engineVars, localVars, ghostVars, historyVars,
                   strategyVars, last_order_time, tick, call, placed, tried,
                   overlapVars, pureVars>>

MarketMoves ==
    /\ \E f \in TickFeeds : f # feed /\ feed' = f
    /\ UNCHANGED <<envVars, engineVars, localVars, ghostVars, historyVars,
                   gen, signals, tickVars, overlapVars, pureVars>>

\* The symbols of a list of signals.
SymbolsOf(sigs) == {sigs[i].symbol : i \in 1..Len(sigs)}

\* One call of run_tick at the time `now', with trades enabled or not, the
\* given balance, the sink's behaviour per symbol and the time an order takes.
Tick(now, e, b, o, lag) ==
    LET args == [now |-> now, execute_trades |-> e, balance |-> b,
                 risk10 |-> RISK_PCT_PER_TRADE10, outcome |-> o, lag |-> lag]
        r == run_tick(Generated[feed], last_order_time, mono, tried, args)
    IN /\ r.st.clock <= MaxClock + ClockStep
       /\ gen' = IF ~r.asked THEN "pending" ELSE r.status
       /\ signals' = r.generated
       /\ tick' = IF r.status = "raised"
                  THEN [status |-> "raised", signals |-> <<>>,
                        planned_orders |-> <<>>, orders |-> <<>>]
                  ELSE [status |-> "returned", signals |-> r.st.signals,
                        planned_orders |-> r.st.planned_orders,
                        orders |-> r.st.orders]
       /\ call' = [open |-> _is_forex_market_open(now), execute_trades |-> e,
                   balance |-> b]
       /\ mono' = r.st.clock
       /\ last_order_time' = r.st.lot
       /\ placed' = r.st.placed
       /\ tried' = r.st.tried
       /\ UNCHANGED <<envVars, engineVars, localVars, ghostVars, historyVars, feed,
                      overlapVars, pureVars>>

\* The sink's behaviour is an input for the symbols it can be asked about.
RunTick ==
    \E now \in TickTimes, e \in BOOLEAN, b \in Balances,
       o \in [SymbolsOf(Generated[feed].signals) -> Outcomes],
       lag \in {0, ClockStep} :
       Tick(now, e, b, o, lag)

NextLiq == Elapse \/ MarketMoves \/ RunTick

SpecLiq == InitLiq /\ [][NextLiq]_vars


\* A step made by a run_tick call: the market data stand still, and the
\* clock moves only while an order is being placed.
TickStep == feed' = feed /\ (mono' = mono \/ tried' # tried)

PlacedSymbols(calls) == {calls[i].symbol : i \in 1..Len(calls)}

\* C13: once run_tick has attempted an order for a symbol (accepted,
\* answered with an error, or raised), a later run_tick that ends within
\* SYMBOL_COOLDOWN_SECONDS of that attempt and produces a signal for the
\* symbol makes no place_order call for it, and still lists the signal in
\* the returned signals.
C13_CooldownBlocksOrder ==
    [][TickStep =>
          \A sym \in DOMAIN tried :
             (/\ mono' - tried[sym] < SYMBOL_COOLDOWN_SECONDS
              /\ sym \in SymbolsOf(signals'))
             => /\ sym \notin PlacedSymbols(placed')
                /\ tick'.status = "returned"
                /\ sym \in SymbolsOf(tick'.signals)]_vars

\* A call that would have ordered (market open, executing, a balance to
\* size with) lists a signal of a symbol tried less than the cooldown ago
\* and places nothing for it.
C13_Witness ==
    /\ call.open /\ call.execute_trades /\ call.balance > 0
    /\ tick.status = "returned"
    /\ \E sym \in DOMAIN tried :
          /\ mono - tried[sym] < SYMBOL_COOLDOWN_SECONDS
          /\ sym \in SymbolsOf(tick.signals)
          /\ sym \notin PlacedSymbols(placed)
          /\ \E other \in PlacedSymbols(placed) : other # sym

SamePlan(a, b) ==
    /\ a.symbol = b.symbol /\ a.side = b.side /\ a.units = b.units
    /\ a.entry = b.entry /\ a.stop_loss = b.stop_loss
    /\ a.take_profit10 = b.take_profit10 /\ a.rr = b.rr

SameSignal(a, b) ==
    /\ a.symbol = b.symbol /\ a.side = b.side
    /\ a.entry = b.entry /\ a.stop_loss = b.stop_loss
    /\ a.take_profit10 = b.take_profit10 /\ a.rr = b.rr

\* C14: a run_tick call with execute_trades False calls place_order never,
\* returns no executed orders and leaves the cooldown map as it was; in
\* every call each executed order is a planned order of the same call and
\* each planned order belongs to a signal the call reports.
C14_DryRunLeavesNoTrace ==
    [][TickStep =>
          /\ ~call'.execute_trades =>
                /\ placed' = <<>>
                /\ tick'.orders = <<>>
                /\ last_order_time' = last_order_time
          /\ \A i \in 1..Len(tick'.orders) :
                \E j \in 1..Len(tick'.planned_orders) :
                   SamePlan(tick'.orders[i], tick'.planned_orders[j])
          /\ \A j \in 1..Len(tick'.planned_orders) :
                \E n \in 1..Len(tick'.signals) :
                   SameSignal(tick'.planned_orders[j], tick'.signals[n])]_vars

\* A dry run that planned an order, after an executing call had stamped a
\* cooldown time.
C14_Witness ==
    /\ call.open /\ ~call.execute_trades
    /\ tick.status = "returned"
    /\ tick.planned_orders # <<>>
    /\ tick.orders = <<>>
    /\ placed = <<>>
    /\ last_order_time # <<>>

Healed(f) == [sym \in DOMAIN f |-> [f[sym] EXCEPT !.fault = "none"]]

Healthy(f) == {sym \in DOMAIN f : f[sym].fault = "none"}

\* C15: when the provider fails on get_spread or get_candles for one
\* instrument, run_tick still returns a result, with that instrument
\* skipped and the signals of the others as they would be without the
\* failure.
C15_ProviderFailureSkipsInstrument ==
    [][(TickStep /\ call'.open) =>
          /\ tick'.status = "returned"
          /\ gen' = "returned"
          /\ SelectSeq(signals', LAMBDA sg : sg.symbol \in Healthy(feed))
                = SelectSeq(Generated[Healed(feed)].signals,
                            LAMBDA sg : sg.symbol \in Healthy(feed))
          /\ SymbolsOf(signals') \subseteq Healthy(feed)]_vars

\* C17: when place_order raises, the order is in the executed orders with
\* the error marker, the symbol's cooldown starts at that instant, and the
\* call goes on: every generated signal is listed and every planned order
\* of an executing call has its place_order call and its executed-order
\* entry.
C17_RaisedOrderRecorded ==
    /\ \A i \in 1..Len(placed) :
          placed[i].outcome = "raise" =>
             /\ i <= Len(tick.orders)
             /\ tick.orders[i].symbol = placed[i].symbol
             /\ tick.orders[i].units = placed[i].units
             /\ tick.orders[i].response = "error"
             /\ placed[i].symbol \in DOMAIN last_order_time
             /\ last_order_time[placed[i].symbol] = tried[placed[i].symbol]
    /\ (\E i \in 1..Len(placed) : placed[i].outcome = "raise") =>
          /\ tick.status = "returned"
          /\ tick.signals = signals
          /\ Len(tick.planned_orders) = Len(placed)
          /\ Len(tick.orders) = Len(placed)

\* The first place_order call of a tick raised and the second was made.
C17_Witness ==
    /\ Len(placed) = 2
    /\ placed[1].outcome = "raise"
    /\ placed[2].outcome = "filled"
    /\ tick.orders[1].response = "error"
    /\ tick.orders[2].response = "filled"

(***************************************************************************)
(* chaosfx generate_signal: strategy.py 45-313, risk.py 50-91              *)
(* Prices and distances are in points (PipPoints to a pip); reward/risk    *)
(* settings are in tenths, the ATR multipliers in tenths and hundredths.   *)
(***************************************************************************)
MIN_RISK_REWARD10 == 20
PREFERRED_RISK_REWARD10 == 25
MAX_RISK_REWARD10 == 30
DEFAULT_SL_PIPS == 15
DEFAULT_TP_PIPS == 30
ATR_SL_MULTIPLIER10 == 15
ATR_EXPANSION_MULTIPLIER100 == 115
MIN_BARS == 60
ATR_PERIOD == 14
ATR_MEAN_WINDOW == 50

\* df["atr"].rolling(window=50).mean().iloc[-1] is NaN until fifty ATR values
\* exist, and the first ATR value needs ATR_PERIOD bars.
atr_mean_is_nan(f) == f.n < ATR_PERIOD + ATR_MEAN_WINDOW - 1

\* strategy.py 104-109
atr_expanding(f) ==
    /\ ~atr_mean_is_nan(f)
    /\ f.atr * 100 > ATR_EXPANSION_MULTIPLIER100 * f.atr_mean

\* strategy.py 115-128
trend_of(f) ==
    IF f.ma_fast > f.ma_slow /\ f.ma_fast > f.ma_fast_back THEN "UP"
    ELSE IF f.ma_fast < f.ma_slow /\ f.ma_fast < f.ma_fast_back THEN "DOWN"
    ELSE "FLAT"

\* risk.py 76-91, the volatility score given as the fraction atr / close
select_risk_reward_target(atr, close) ==
    IF atr * 10000 >= 2 * VOLATILITY_MIN_SCORE * close THEN MAX_RISK_REWARD10
    ELSE IF atr * 100000 >= 15 * VOLATILITY_MIN_SCORE * close
         THEN PREFERRED_RISK_REWARD10
    ELSE MIN_RISK_REWARD10

\* A mis-translation of validate_risk_reward: every positive risk passes.
validate_any_reward(entry_price, stop_loss_price, take_profit_price, side) ==
    LET risk == IF side = "LONG" THEN entry_price - stop_loss_price
                ELSE stop_loss_price - entry_price
        reward == IF side = "LONG" THEN take_profit_price - entry_price
                  ELSE entry_price - take_profit_price
    IN  IF risk <= 0 THEN [valid |-> FALSE, reward |-> 0, risk |-> 1]
        ELSE [valid |-> TRUE, reward |-> reward, risk |-> risk]

\* risk.py 50-73; actual_rr is the fraction reward / risk (0.0 is 0 / 1)
validate_risk_reward(entry_price, stop_loss_price, take_profit_price, side) ==
    LET risk == IF side = "LONG" THEN entry_price - stop_loss_price
                ELSE stop_loss_price - entry_price
        reward == IF side = "LONG" THEN take_profit_price - entry_price
                  ELSE entry_price - take_profit_price
    IN  IF risk <= 0 THEN [valid |-> FALSE, reward |-> 0, risk |-> 1]
        ELSE [valid |-> reward * 10 >= MIN_RISK_REWARD10 * risk,
              reward |-> reward, risk |-> risk]

\* A mis-translation of the setups: the candle pattern alone picks the side.
pattern_side(f) ==
    IF f.bull_engulf \/ f.bull_pin THEN "LONG"
    ELSE IF f.bear_engulf \/ f.bear_pin THEN "SHORT"
    ELSE "FLAT"

\* strategy.py 185-210: the side of the setup
setup_side(f) ==
    IF trend_of(f) = "UP" /\ (f.bull_engulf \/ f.bull_pin) THEN "LONG"
    ELSE IF trend_of(f) = "DOWN" /\ (f.bear_engulf \/ f.bear_pin) THEN "SHORT"
    ELSE "FLAT"

\* strategy.py 187-209: reason and pattern strength (in tenths) of a setup
setup_pattern(f, side) ==
    LET engulf == IF side = "LONG" THEN f.bull_engulf ELSE f.bear_engulf
        pin == IF side = "LONG" THEN f.bull_pin ELSE f.bear_pin
        up == side = "LONG"
    IN  IF engulf /\ pin
        THEN [reason |-> IF up THEN "aggressive_trend_up_breakout_engulf+pin"
                         ELSE "aggressive_trend_down_breakout_engulf+pin",
              strength |-> 15]
        ELSE IF engulf
        THEN [reason |-> IF up THEN "aggressive_trend_up_breakout_engulf"
                         ELSE "aggressive_trend_down_breakout_engulf",
              strength |-> 12]
        ELSE [reason |-> IF up THEN "aggressive_trend_up_breakout_pin"
                         ELSE "aggressive_trend_down_breakout_pin",
              strength |-> 10]

\* strategy.py 232-256: the stop and the target of a setup.  The two prices
\* are binary floating point sums, so each may land one step off the exact
\* sum (f.round_stop, f.round_take).
setup_levels(f, side, sl_pips, tp_pips) ==
    LET target_rr == select_risk_reward_target(f.atr, f.close)
        dyn_sl == IF f.atr > 0
                  THEN MaxOf({sl_pips * PipPoints,
                              (f.atr * ATR_SL_MULTIPLIER10) \div 10})
                  ELSE sl_pips * PipPoints
        dyn_tp == MaxOf({tp_pips * PipPoints, (dyn_sl * target_rr) \div 10})
    IN  IF side = "LONG"
        THEN [stop_loss |-> f.close - dyn_sl + f.round_stop,
              take_profit |-> f.close + dyn_tp + f.round_take]
        ELSE [stop_loss |-> f.close + dyn_sl + f.round_stop,
              take_profit |-> f.close - dyn_tp + f.round_take]

\* Signal("FLAT", None, None, reason)
FlatSignal(reason, rr) ==
    [side |-> "FLAT", stop_loss |-> 0, take_profit |-> 0, reason |-> reason,
     risk_reward |-> rr, confidence |-> 0]

\* strategy.py 179-180, 276: the confidence, in tenths
confidence_of(f, strength) ==
    LET vol_component ==
            IF f.atr > 0 /\ f.close > 0
            THEN MinOf({(f.atr * 100000) \div (VOLATILITY_MIN_SCORE * f.close), 20})
            ELSE 0
    IN  vol_component + strength + 10

\* strategy.py 316-340: the last close outside the channel of the 20 bars
\* before the last two, on either side.
_detect_breakout(f) ==
    IF f.n < 20 + 2 THEN FALSE
    ELSE LET breakout_up == f.close > f.channel.high
             breakout_down == f.close < f.channel.low
         IN  breakout_up \/ breakout_down

\* A mis-translation of the early returns: the trend is tested before the
\* ATR expansion.
early_return_trend_first(f) ==
    IF f.n < MIN_BARS THEN "not_enough_data"
    ELSE IF trend_of(f) = "FLAT" THEN "no_trend_alignment_ranging"
    ELSE IF ~atr_expanding(f) THEN "atr_not_expanding"
    ELSE IF ~_detect_breakout(f) THEN "no_breakout_structure"
    ELSE IF setup_side(f) = "FLAT" THEN "no_signal"
    ELSE "none"

\* strategy.py 80-81, 140-165, 212-220: the reason of the first early return
\* the call takes, "none" when it reaches the stop and target construction
early_return(f) ==
    IF f.n < MIN_BARS THEN "not_enough_data"
    ELSE IF ~atr_expanding(f) THEN "atr_not_expanding"
    ELSE IF trend_of(f) = "FLAT" THEN "no_trend_alignment_ranging"
    ELSE IF ~_detect_breakout(f) THEN "no_breakout_structure"
    ELSE IF setup_side(f) = "FLAT" THEN "no_signal"
    ELSE "none"

\* strategy.py 45-313
generate_signal(f, sl_pips, tp_pips) ==
    IF early_return(f) # "none" THEN FlatSignal(early_return(f), <<0, 1>>)
    ELSE LET side == setup_side(f)
             lv == setup_levels(f, side, sl_pips, tp_pips)
             rr == validate_risk_reward(f.close, lv.stop_loss, lv.take_profit,
                                        side)
             pat == setup_pattern(f, side)
         IN  IF ~rr.valid
             THEN FlatSignal("rr_too_low", <<rr.reward, rr.risk>>)
             ELSE [side |-> side, stop_loss |-> lv.stop_loss,
                   take_profit |-> lv.take_profit, reason |-> pat.reason,
                   risk_reward |-> <<rr.reward, rr.risk>>,
                   confidence |-> confidence_of(f, pat.strength)]

\* What the candles of a call can amount to: fewer than MIN_BARS, enough for
\* the moving averages only, or enough for the ATR mean as well; an ATR at,
\* just above or far above its mean; every arrangement of the fast average
\* against the slow one and against its own earlier value; every mix of the
\* four candle patterns.
BarCounts == {MIN_BARS - 1, MIN_BARS, ATR_PERIOD + ATR_MEAN_WINDOW - 1}
AtrLevels == {40, 50, 120}
AtrMeans == {30, 45}
MaLevels == {1, 2, 3}
RoundingSteps == {-1, 0, 1}

\* The high and the low of the consolidation channel against the last close
\* of 100000: the close above the channel, on its high, inside it, on its low
\* and below it.
Channels ==
    {[low |-> 99000, high |-> 99900], [low |-> 99000, high |-> 100000],
     [low |-> 99900, high |-> 100100], [low |-> 100000, high |-> 101000],
     [low |-> 100100, high |-> 101000]}

Setups ==
    [n : BarCounts, atr : AtrLevels, atr_mean : AtrMeans, close : {100000},
     ma_fast : MaLevels, ma_slow : {2}, ma_fast_back : MaLevels,
     channel : Channels, bull_engulf : BOOLEAN, bull_pin : BOOLEAN,
     bear_engulf : BOOLEAN, bear_pin : BOOLEAN,
     round_stop : RoundingSteps, round_take : RoundingSteps]

InitSignal ==
    /\ EngineInit /\ HistoryInit /\ StrategyInit /\ TickInit(0) /\ OverlapInit
    /\ RiskInit /\ HoursInit
    /\ bars \in Setups
    /\ signal = [side |-> "pending"]

\* engine.py 292-297: the engine's call, with the configured pip defaults
GenerateSignal ==
    /\ signal.side = "pending"
    /\ signal' = generate_signal(bars, DEFAULT_SL_PIPS, DEFAULT_TP_PIPS)
    /\ UNCHANGED <<envVars, engineVars, localVars, ghostVars, historyVars,
                   strategyVars, tickVars, overlapVars, bars, riskVars, hoursVars>>

NextSignal == GenerateSignal

SpecSignal == InitSignal /\ [][NextSignal]_vars

\* The realized reward and risk of a returned signal, measured from the last
\* close as the engine's entry price (engine.py 422).
Realized(side, close, stop_loss, take_profit) ==
    IF side = "LONG"
    THEN [reward |-> take_profit - close, risk |-> close - stop_loss]
    ELSE [reward |-> close - take_profit, risk |-> stop_loss - close]

PassesFilters(f) ==
    /\ f.n >= MIN_BARS
    /\ atr_expanding(f)
    /\ trend_of(f) # "FLAT"
    /\ _detect_breakout(f)
    /\ setup_side(f) # "FLAT"

BelowFloor(f) ==
    LET lv == setup_levels(f, setup_side(f), DEFAULT_SL_PIPS, DEFAULT_TP_PIPS)
        r == Realized(setup_side(f), f.close, lv.stop_loss, lv.take_profit)
    IN  r.risk <= 0 \/ r.reward * 10 < MIN_RISK_REWARD10 * r.risk

\* C21: every LONG or SHORT signal generate_signal returns has a realized
\* reward of at least MIN_RISK_REWARD times its realized risk, and a setup
\* that passes the ATR, trend, breakout and pattern filters but whose stop
\* and target realize less than that comes back FLAT with the reason
\* rr_too_low.
C21_RewardRiskFloor ==
    signal.side # "pending" =>
        /\ signal.side \in {"LONG", "SHORT"} =>
              LET r == Realized(signal.side, bars.close, signal.stop_loss,
                                signal.take_profit)
              IN  r.risk > 0 /\ r.reward * 10 >= MIN_RISK_REWARD10 * r.risk
        /\ PassesFilters(bars) /\ BelowFloor(bars) =>
              signal.side = "FLAT" /\ signal.reason = "rr_too_low"

C21_Witness ==
    /\ signal.side = "FLAT"
    /\ signal.reason = "rr_too_low"
    /\ PassesFilters(bars)
    /\ BelowFloor(bars)

\* The setups generate_signal looks for: a bullish pattern in an up trend or
\* a bearish one in a down trend.
HasPattern(f) ==
    \/ trend_of(f) = "UP" /\ (f.bull_engulf \/ f.bull_pin)
    \/ trend_of(f) = "DOWN" /\ (f.bear_engulf \/ f.bear_pin)

\* C22: with at least 60 bars, a failing ATR-expansion filter gives FLAT with
\* the reason atr_not_expanding whatever the trend, the breakout and the
\* patterns are, and in general the FLAT reason is that of the first failing
\* filter in the order ATR expansion, trend alignment, breakout, pattern,
\* reward/risk floor; a call that fails none of them returns a side.
C22_FirstFailingFilterNamed ==
    signal.side # "pending" /\ bars.n >= MIN_BARS =>
        LET atr == atr_expanding(bars)
            trend == trend_of(bars) # "FLAT"
            pattern == HasPattern(bars)
            floor == ~BelowFloor(bars)
            flat(reason) == signal.side = "FLAT" /\ signal.reason = reason
        IN  /\ ~atr => flat("atr_not_expanding")
            /\ atr /\ ~trend => flat("no_trend_alignment_ranging")
            /\ atr /\ trend /\ ~_detect_breakout(bars) => flat("no_breakout_structure")
            /\ atr /\ trend /\ _detect_breakout(bars) /\ ~pattern => flat("no_signal")
            /\ atr /\ trend /\ _detect_breakout(bars) /\ pattern /\ ~floor
                  => flat("rr_too_low")
            /\ atr /\ trend /\ _detect_breakout(bars) /\ pattern /\ floor
                  => signal.side \in {"LONG", "SHORT"}

\* Every filter fails at once and the reason is the ATR one.
C22_Witness ==
    /\ signal.side = "FLAT"
    /\ signal.reason = "atr_not_expanding"
    /\ bars.n >= MIN_BARS
    /\ ~atr_mean_is_nan(bars)
    /\ trend_of(bars) = "FLAT"
    /\ ~_detect_breakout(bars)
    /\ ~HasPattern(bars)

\* C28: generate_signal returns LONG only when the fast average is above the
\* slow one and above its own earlier value, SHORT only when it is below
\* both, and FLAT when neither holds.
C28_NoCounterTrendEntry ==
    signal.side # "pending" =>
        LET up == bars.ma_fast > bars.ma_slow /\ bars.ma_fast > bars.ma_fast_back
            down == bars.ma_fast < bars.ma_slow /\ bars.ma_fast < bars.ma_fast_back
        IN  /\ signal.side = "LONG" => up
            /\ signal.side = "SHORT" => down
            /\ ~up /\ ~down => signal.side = "FLAT"

\* A bearish pattern in an up trend next to a bullish one: the call goes long.
C28_Witness ==
    /\ signal.side = "LONG"
    /\ bars.bear_engulf
    /\ bars.ma_fast > bars.ma_slow

\* A bullish pattern alone in a down trend: no entry.
C28_WitnessRefused ==
    /\ signal.side = "FLAT"
    /\ bars.ma_fast < bars.ma_slow /\ bars.ma_fast < bars.ma_fast_back
    /\ atr_expanding(bars) /\ _detect_breakout(bars)
    /\ bars.bull_engulf /\ ~bars.bear_engulf /\ ~bars.bear_pin

(***************************************************************************)
(* The sizing and drawdown functions of the two engines, called on their   *)
(* own: risk.py 9-43, forexbot_core.py 113-137 and 208-263, engine.py      *)
(* 430-439.  ChaosFX prices are in pips, Liquidity prices in points.       *)
(***************************************************************************)
SizingBalances == {-10000, 0, 10, 10000}

ChaosSizeAsks ==
    [fn : {"compute_position_size"}, balance : SizingBalances,
     entry : {10800}, stop_loss : {10785, 10799, 10800, 10815},
     side : {"LONG", "SHORT"}]

LiquiditySizeAsks ==
    [fn : {"_calc_position_size"}, balance : SizingBalances,
     entry : {108000}, stop_loss : {107850, 108000, 108150},
     symbol : {"EURGBP", "XAUUSD"}, side : {"long", "short"},
     execute_trades : BOOLEAN]

DrawdownAsks ==
    [fn : {"daily_drawdown_exceeded"},
     equity : {9300, 9400, 9500, 9600, 9700, 9800, 10000, 10100},
     start_of_day_equity : {0, 10000}]

InitRisk ==
    /\ EngineInit /\ HistoryInit /\ StrategyInit /\ TickInit(0) /\ OverlapInit
    /\ SignalInit /\ HoursInit
    /\ ask \in ChaosSizeAsks \cup LiquiditySizeAsks \cup DrawdownAsks
    /\ answer = [fn |-> "pending"]

Answered == answer.fn # "pending"

\* engine.py 430-439: the size of an order of the whole equity, and whether
\* the loop goes on to the order or skips the pair.
SizeChaos ==
    /\ ask.fn = "compute_position_size"
    /\ ~Answered
    /\ LET units == compute_position_size(ask.balance * 10000, 1,
                                          Abs(ask.entry - ask.stop_loss))
       IN  answer' = [fn |-> ask.fn, units |-> units, skipped |-> units <= 0]
    /\ UNCHANGED <<envVars, engineVars, localVars, ghostVars, historyVars,
                   strategyVars, tickVars, overlapVars, signalVars, ask, hoursVars>>

\* forexbot_core.py 208-263: one turn of run_tick's loop for a signal with
\* the asked entry and stop, the symbol not in cooldown.
SizeLiquidity ==
    /\ ask.fn = "_calc_position_size"
    /\ ~Answered
    /\ LET sig == Signal(ask.symbol, ask.side, ask.entry, ask.stop_loss, 20, 20,
                         "pdl")
           args == [execute_trades |-> ask.execute_trades, balance |-> ask.balance,
                    risk10 |-> RISK_PCT_PER_TRADE10,
                    outcome |-> [x \in {ask.symbol} |-> "filled"], lag |-> 0]
           fresh == [signals |-> <<>>, planned_orders |-> <<>>, orders |-> <<>>,
                     lot |-> <<>>, clock |-> SYMBOL_COOLDOWN_SECONDS,
                     placed |-> <<>>, tried |-> <<>>]
           st == tick_step(sig, args, fresh)
       IN  answer' = [fn |-> ask.fn,
                      units |-> _calc_position_size(ask.balance,
                                    RISK_PCT_PER_TRADE10, ask.entry,
                                    ask.stop_loss, ask.symbol),
                      planned_orders |-> st.planned_orders,
                      orders |-> st.orders]
    /\ UNCHANGED <<envVars, engineVars, localVars, ghostVars, historyVars,
                   strategyVars, tickVars, overlapVars, signalVars, ask, hoursVars>>

\* risk.py 31-43: the verdict and the drawdown as the fraction lost / start
CheckDrawdown ==
    /\ ask.fn = "daily_drawdown_exceeded"
    /\ ~Answered
    /\ answer' = [fn |-> ask.fn,
                  exceeded |-> daily_drawdown_exceeded(ask.equity,
                                                       ask.start_of_day_equity),
                  drawdown |-> IF ask.start_of_day_equity <= 0 THEN <<0, 1>>
                               ELSE <<ask.start_of_day_equity - ask.equity,
                                      ask.start_of_day_equity>>]
    /\ UNCHANGED <<envVars, engineVars, localVars, ghostVars, historyVars,
                   strategyVars, tickVars, overlapVars, signalVars, ask, hoursVars>>

NextRisk == SizeChaos \/ SizeLiquidity \/ CheckDrawdown

SpecRisk == InitRisk /\ [][NextRisk]_vars

\* units is the integer part of amount / distance, for amount >= 0.
IsIntegerPart(units, amount, distance) ==
    units * distance <= amount /\ amount < (units + 1) * distance

\* What both sizing functions promise whatever the balance is: no units for
\* a zero stop distance, the integer part of risk amount / stop distance for
\* a balance that is not negative, and no order from a size of zero or less.
SizedAsDocumented ==
    LET distance == Abs(ask.entry - ask.stop_loss)
    IN  /\ ask.fn = "compute_position_size" =>
              /\ distance = 0 => answer.units = 0
              /\ ask.balance >= 0 /\ distance > 0 =>
                    IsIntegerPart(answer.units,
                                  ask.balance * 100 * RISK_PER_TRADE, distance)
              /\ answer.units <= 0 => answer.skipped
        /\ ask.fn = "_calc_position_size" =>
              /\ distance = 0 => answer.units = 0
              /\ ask.balance >= 0 /\ distance > 0 =>
                    IsIntegerPart(answer.units,
                                  ask.balance * RISK_PCT_PER_TRADE10
                                      * PointsPerMille(ask.symbol), distance)
              /\ answer.units <= 0 =>
                    answer.planned_orders = <<>> /\ answer.orders = <<>>

\* C23 as stated: position sizing in both engines is (equity x risk
\* fraction) / |entry - stop_loss| cut to an integer, the result is never
\* negative, and a zero stop distance gives zero units, after which no order
\* is planned or submitted.
C23_SizeNeverNegative ==
    Answered /\ ask.fn \in {"compute_position_size", "_calc_position_size"} =>
        SizedAsDocumented /\ answer.units >= 0

\* C23, amended: as above, except that only the Liquidity engine's
\* _calc_position_size is never negative; chaosfx compute_position_size is
\* negative for a negative balance, and run_once skips the pair then.
C23_SizeNeverNegativeInLiquidity ==
    Answered /\ ask.fn \in {"compute_position_size", "_calc_position_size"} =>
        /\ SizedAsDocumented
        /\ ask.fn = "_calc_position_size" \/ ask.balance >= 0 => answer.units >= 0
        /\ ask.fn = "compute_position_size" /\ answer.units < 0 => answer.skipped

\* A signal whose stop is its entry, with trades enabled and money in the
\* account: zero units and nothing planned.
C23_Witness ==
    /\ Answered
    /\ ask.fn = "_calc_position_size"
    /\ ask.entry = ask.stop_loss
    /\ ask.balance > 0
    /\ ask.execute_trades
    /\ answer.units = 0
    /\ answer.planned_orders = <<>>

\* C24: with the shipped settings compute_position_size risks 1% of the
\* balance: for a balance of 10000 and a stop 15 pips (0.0015) from the entry
\* it returns between 60000 and 70000 units.
C24_OnePercentOfBalance ==
    /\ Answered
    /\ ask.fn = "compute_position_size"
    /\ ask.balance = 10000
    /\ Abs(ask.entry - ask.stop_loss) = 15
    => 60000 < answer.units /\ answer.units < 70000

\* C25: with the shipped settings daily_drawdown_exceeded(9600, 10000) is
\* True with a drawdown of 0.04 and daily_drawdown_exceeded(9800, 10000) is
\* False.
C25_HaltAtFourPercent ==
    /\ Answered
    /\ ask.fn = "daily_drawdown_exceeded"
    /\ ask.start_of_day_equity = 10000
    => /\ ask.equity = 9600 =>
             /\ answer.exceeded
             /\ answer.drawdown[1] * 100 = 4 * answer.drawdown[2]
       /\ ask.equity = 9800 => ~answer.exceeded

(***************************************************************************)
(* The market-hours guards of the two engines at one and the same time of  *)
(* the week: engine.py 33-63 and 180-199, forexbot_core.py 12-36, 171-177  *)
(***************************************************************************)
SESSION_UTC_START_HOUR == 6
SESSION_UTC_END_HOUR == 22

\* engine.py 33-49, with the clock reading handed in
engine_is_forex_market_open(now) ==
    IF now.wd = 5 THEN FALSE
    ELSE IF now.wd = 6 /\ now.hour < 22 THEN FALSE
    ELSE IF now.wd = 4 /\ now.hour >= 22 THEN FALSE
    ELSE TRUE

\* engine.py 52-63, with SESSION_ONLY as shipped
_in_trading_session(now) ==
    SESSION_UTC_START_HOUR <= now.hour /\ now.hour < SESSION_UTC_END_HOUR

\* Every hour of the week.
Clocks == [wd : 0..6, hour : 0..23]

\* The market offers a long setup on two symbols and on one pair, so that
\* either engine trades when it gets as far as looking.
HoursFeed ==
    [sym \in {"EURGBP", "XAUUSD", "GBPCAD"} |->
        CASE sym = "EURGBP" -> SweepLong
          [] sym = "XAUUSD" -> RepeatedLong
          [] OTHER -> Calm]

HoursScan == <<Quiet, Quiet, Quiet, ExtremeLong>>

InitHours ==
    /\ EngineInit /\ HistoryInit /\ OverlapInit /\ SignalInit /\ RiskInit
    /\ feed = HoursFeed
    /\ NoCall
    /\ TickInit(SYMBOL_COOLDOWN_SECONDS)
    /\ clock_utc \in Clocks
    /\ opened = [asked |-> FALSE]

AskMarketOpen ==
    /\ ~opened.asked
    /\ opened' = [asked |-> TRUE,
                  chaosfx |-> engine_is_forex_market_open(clock_utc),
                  liquidity |-> _is_forex_market_open(clock_utc)]
    /\ UNCHANGED <<envVars, engineVars, localVars, ghostVars, historyVars,
                   strategyVars, tickVars, overlapVars, signalVars, riskVars,
                   clock_utc>>

\* run_tick called once at this time, the sink filling every order
TickAtClock ==
    /\ tick.status = "none"
    /\ \E e \in BOOLEAN :
          Tick(clock_utc, e, 10000,
               [sym \in SymbolsOf(Generated[feed].signals) |-> "filled"], 0)

\* run_once called at this time, every broker call answering
CycleAtClock ==
    Begin(engine_is_forex_market_open(clock_utc), _in_trading_session(clock_utc),
          FALSE, "none")

NextHours ==
    \/ AskMarketOpen
    \/ TickAtClock
    \/ CycleAtClock
    \/ Scan(HoursScan)
    \/ ExecuteStep
    \/ Exit

SpecHours == InitHours /\ [][NextHours]_vars

\* Friday 22:00 UTC up to Sunday 22:00 UTC, counted in hours since Monday 0:00
Weekend(now) ==
    LET h == now.wd * 24 + now.hour
    IN  4 * 24 + 22 <= h /\ h < 6 * 24 + 22

\* C26: for every weekday and hour the two market-open predicates agree and
\* answer closed exactly from Friday 22:00 UTC up to Sunday 22:00 UTC; a
\* run_tick made while closed returns empty signals, planned orders and
\* orders and asks neither the data provider nor the sink; a run_once made
\* while closed submits no order.
C26_ClosedOverTheWeekend ==
    /\ opened.asked =>
          /\ opened.chaosfx = opened.liquidity
          /\ opened.liquidity = ~Weekend(clock_utc)
    /\ Weekend(clock_utc) /\ tick.status # "none" =>
          /\ tick.status = "returned"
          /\ tick.signals = <<>> /\ tick.planned_orders = <<>> /\ tick.orders = <<>>
          /\ gen = "pending"
          /\ placed = <<>>
    /\ Weekend(clock_utc) => orders = <<>> /\ sinkTrades = {}

\* Sunday evening before the open: both predicates asked, run_tick called
\* with trades enabled, run_once returned.
C26_Witness ==
    /\ clock_utc = [wd |-> 6, hour |-> 21]
    /\ opened.asked
    /\ tick.status = "returned"
    /\ call.execute_trades
    /\ result = "returned"
    /\ last_summary.reason = "market_closed"

\* An hour later both engines trade.
C26_WitnessOpen ==
    /\ clock_utc = [wd |-> 6, hour |-> 22]
    /\ opened.asked /\ opened.chaosfx /\ opened.liquidity
    /\ tick.orders # <<>>
    /\ orders # <<>>

(***************************************************************************)
(* The execution loop's skips and the surge mode: engine.py 325-347,       *)
(* 374-381, 395-439, 510                                                   *)
(***************************************************************************)
\* The step submits an order that the sink accepts.
OrderAccepted == Len(orders') > Len(orders)

\* The candidate of the order passed the four skips of the loop, judged
\* against the open-trades snapshot the loop held at that moment.
PassedSkips ==
    LET a == TopK(candidate_list)[idx]
        o == orders'[Len(orders')]
    IN  /\ o.pair = a.pair
        /\ a.side # "FLAT"
        /\ a.confidence >= CONFIDENCE_MIN
        /\ o.units # 0
        /\ ~\E t \in open_trades : t.instrument = a.pair

SkipGatesHold == [][OrderAccepted => PassedSkips]_vars

\* C27: run_once never submits an order for a candidate whose signal is
\* FLAT, whose confidence is below CONFIDENCE_MIN, whose size is zero, or
\* whose instrument has an open trade in the latest open-trades snapshot,
\* and that snapshot is refreshed from the sink after every executed order.
C27_SkipsAgainstFreshSnapshot ==
    [][OrderAccepted => PassedSkips /\ open_trades' = sinkTrades']_vars

\* C29: an order submitted outside the session window is submitted in surge
\* mode, for an instrument whose volatility is at least VOLATILITY_MIN_SCORE
\* x VOLATILITY_EXTREME_MULTIPLIER, and is sized from equity x
\* EXTREME_RISK_FACTOR; an order submitted inside the window is sized from
\* the full equity, and the cycle and its actions report surge_mode False.
C29_SurgeOnlyOutsideSession ==
    /\ \A o \in OrderSet :
          LET a == candidate_list[o.rank]
          IN  IF in_session
              THEN /\ ~surge_mode
                   /\ IsIntegerPart(Abs(o.units), equity * RISK_PER_TRADE,
                                    100 * a.dist)
              ELSE /\ surge_mode
                   /\ a.vol * 10 >= VOLATILITY_MIN_SCORE
                                        * VOLATILITY_EXTREME_MULTIPLIER
                   /\ IsIntegerPart(Abs(o.units),
                                    equity * EXTREME_RISK_FACTOR * RISK_PER_TRADE,
                                    10 * 100 * a.dist)
    /\ Returned /\ in_session =>
          /\ ~last_summary.surge_mode
          /\ \A i \in 1..Len(last_summary.actions) :
                ~last_summary.actions[i].surge_mode

\* A surge order: outside the session window, half-sized.
C29_Witness ==
    /\ Returned
    /\ ~in_session
    /\ last_summary.surge_mode
    /\ orders # <<>>
    /\ last_summary.actions # <<>>
    /\ last_summary.actions[1].surge_mode

\* An order inside the session window for a pair above the surge threshold.
C29_WitnessInSession ==
    /\ Returned
    /\ in_session
    /\ orders # <<>>
    /\ candidate_list[orders[1].rank].vol * 10
           >= VOLATILITY_MIN_SCORE * VOLATILITY_EXTREME_MULTIPLIER

\* The orders of a list, as a set of positions.
Positions(list) == 1..Len(list)

\* An order of run_tick's result is within the ceiling of its symbol and
\* signed by its side.
WithinCeiling(o) ==
    /\ Abs(o.units) >= 1
    /\ Abs(o.units) <= (IF o.symbol = "XAUUSD" THEN MAX_UNITS_XAU ELSE MAX_UNITS_FX)
    /\ o.units < 0 <=> o.side = "short"

\* C30: every planned and every executed order of a run_tick result has a
\* unit magnitude from 1 to the ceiling of its symbol (max_units_xau for
\* XAUUSD, max_units_fx for any other symbol), negative exactly when the
\* side is short, and a tick plans at most one order per symbol.
C30_UnitsWithinCeiling ==
    /\ \A i \in Positions(tick.planned_orders) : WithinCeiling(tick.planned_orders[i])
    /\ \A i \in Positions(tick.orders) : WithinCeiling(tick.orders[i])
    /\ \A i \in Positions(tick.planned_orders) :
          \A j \in Positions(tick.planned_orders) :
              tick.planned_orders[i].symbol = tick.planned_orders[j].symbol => i = j

\* One tick plans a capped gold order and a capped short order on a pair.
C30_Witness ==
    /\ tick.status = "returned"
    /\ Len(tick.planned_orders) = 2
    /\ \E i \in Positions(tick.planned_orders) :
          /\ tick.planned_orders[i].symbol = "XAUUSD"
          /\ tick.planned_orders[i].units = MAX_UNITS_XAU
    /\ \E i \in Positions(tick.orders) :
          /\ tick.orders[i].symbol = "EURGBP"
          /\ tick.orders[i].units = -MAX_UNITS_FX

\* A small account: the size stays under the ceiling.
C30_WitnessUnderCeiling ==
    /\ tick.status = "returned"
    /\ \E i \in Positions(tick.planned_orders) :
          /\ tick.planned_orders[i].symbol = "EURGBP"
          /\ Abs(tick.planned_orders[i].units) < MAX_UNITS_FX


(***************************************************************************)
(* _detect_sweep on its own (liquidity_sweep_strategy.py 242-273), applied  *)
(* to the levels _build_liquidity_levels makes of the same window, and      *)
(* generate_signals' turn for the symbol next to it.                        *)
(***************************************************************************)
SweepShapes ==
    {"pdl", "eql", "pdh", "eqh", "weak", "flat", "edge", "short_of", "at_close",
     "at_low", "none"}

\* The bar under study is the last bar of the window: alone, or repeated
\* after one bar that breaks the structure.
SweepScene(a) ==
    Scene("none", 10, a.bias4, a.bias1, a.bar, IF a.repeat THEN 1 ELSE 0, TRUE,
          a.repeat)

SweepAsks ==
    [fn : {"_detect_sweep"}, symbol : {Symbols[i] : i \in DOMAIN Symbols},
     bias4 : {"up", "down", "flat"}, bias1 : {"up", "down"}, bar : SweepShapes,
     repeat : BOOLEAN]

InitSweep ==
    /\ EngineInit /\ HistoryInit /\ StrategyInit /\ TickInit(0) /\ OverlapInit
    /\ SignalInit /\ HoursInit
    /\ ask \in SweepAsks
    /\ answer = [fn |-> "pending"]

DetectSweep ==
    /\ ask.fn = "_detect_sweep"
    /\ ~Answered
    /\ LET data == DataOf(SweepScene(ask))
           cfg == PAIR_CONFIG[ask.symbol]
           levels == _build_liquidity_levels(data.candles_5m)
           bias == _compute_bias_4h(data.candles_4h)
       IN  answer' = [fn |-> ask.fn,
                      candles_5m |-> data.candles_5m,
                      levels |-> levels,
                      bias |-> bias,
                      min_wick_ratio |-> cfg.min_wick_ratio,
                      sweep |-> _detect_sweep(data.candles_5m, levels, bias, cfg),
                      signals |-> symbol_signals(ask.symbol, data)]
    /\ UNCHANGED <<envVars, engineVars, localVars, ghostVars, historyVars,
                   strategyVars, tickVars, overlapVars, signalVars, ask, hoursVars>>

NextSweep == DetectSweep

SpecSweep == InitSweep /\ [][NextSweep]_vars

LastBar == answer.candles_5m[Len(answer.candles_5m)]

LowerWick(bar) == MinOf({bar.open, bar.close}) - bar.low

UpperWick(bar) == bar.high - MaxOf({bar.open, bar.close})

\* the wick is at least min_wick_ratio (percent) of the bar's range
WickEnough(wick, bar) ==
    /\ bar.high - bar.low > 0
    /\ wick * 100 >= answer.min_wick_ratio * (bar.high - bar.low)

\* low < level.price <= close
TakenFromBelow(level, bar) ==
    2 * bar.low < level.price2 /\ level.price2 <= 2 * bar.close

\* high > level.price >= close
TakenFromAbove(level, bar) ==
    2 * bar.high > level.price2 /\ level.price2 >= 2 * bar.close

LongSweepDue ==
    /\ answer.bias = "bullish"
    /\ WickEnough(LowerWick(LastBar), LastBar)
    /\ \E i \in 1..Len(answer.levels) : TakenFromBelow(answer.levels[i], LastBar)

ShortSweepDue ==
    /\ answer.bias = "bearish"
    /\ WickEnough(UpperWick(LastBar), LastBar)
    /\ \E i \in 1..Len(answer.levels) : TakenFromAbove(answer.levels[i], LastBar)

\* rank of a level's kind in the order of the list
KindRank(kind) ==
    CASE kind = "PDH" -> 1
      [] kind = "PDL" -> 2
      [] kind = "EQH" -> 3
      [] OTHER -> 4

\* the level is the first of the list that the bar takes
FirstTaken(level, Taken(_, _)) ==
    \E i \in 1..Len(answer.levels) :
        /\ answer.levels[i] = level
        /\ Taken(level, LastBar)
        /\ \A j \in 1..(i - 1) : ~Taken(answer.levels[j], LastBar)

\* C31: _detect_sweep looks at the last bar only; it returns a long sweep
\* exactly under a bullish bias with a lower wick of at least min_wick_ratio
\* of the range and a level with low < price <= close, a short sweep exactly
\* in the mirrored case, and otherwise nothing (so a bar without range, a
\* short wick or no level taken gives no sweep and no signal); the level
\* returned is the first one taken in the order of the list, which is PDH,
\* PDL, the equal highs, the equal lows.
C31_SweepOfLastBar ==
    Answered /\ answer.fn = "_detect_sweep" =>
        /\ \A i, j \in 1..Len(answer.levels) :
              i < j => KindRank(answer.levels[i].kind) <= KindRank(answer.levels[j].kind)
        /\ answer.sweep.found <=> LongSweepDue \/ ShortSweepDue
        /\ answer.sweep.found => answer.sweep.candle = LastBar
        /\ answer.sweep.found /\ answer.sweep.side = "long" =>
              LongSweepDue /\ FirstTaken(answer.sweep.level, TakenFromBelow)
        /\ answer.sweep.found /\ answer.sweep.side = "short" =>
              ShortSweepDue /\ FirstTaken(answer.sweep.level, TakenFromAbove)
        /\ LongSweepDue => answer.sweep.found /\ answer.sweep.side = "long"
        /\ ShortSweepDue => answer.sweep.found /\ answer.sweep.side = "short"
        /\ ~answer.sweep.found => answer.signals = <<>>

\* A long sweep of the previous day's low although equal lows are taken too,
\* and a signal made of it.
C31_Witness_FirstOfSeveral ==
    /\ Answered /\ answer.fn = "_detect_sweep"
    /\ answer.sweep.found /\ answer.sweep.side = "long"
    /\ answer.sweep.level.kind = "PDL"
    /\ \E i \in 1..Len(answer.levels) :
          /\ answer.levels[i].kind = "EQL"
          /\ TakenFromBelow(answer.levels[i], LastBar)
    /\ answer.signals # <<>>

\* A bullish bias and a level taken from below, but the wick is too short.
C31_Witness_ShortWick ==
    /\ Answered /\ answer.fn = "_detect_sweep"
    /\ answer.bias = "bullish"
    /\ \E i \in 1..Len(answer.levels) : TakenFromBelow(answer.levels[i], LastBar)
    /\ ~answer.sweep.found
    /\ ask.repeat


(***************************************************************************)
(* The signals of generate_signals (liquidity_sweep_strategy.py 328-344,    *)
(* 417-436).                                                                *)
(***************************************************************************)
Emitted == {signals[i] : i \in 1..Len(signals)}

\* the bar the sweep of the symbol's window is on: its last bar
SweepBarOf(symbol) ==
    LET window == Window5m(feed[symbol])
    IN window[Len(window)]

\* C32: every signal of the Liquidity strategy has its stop 3 pips beyond the
\* sweep bar (below its low for a long, above its high for a short), the
\* entry strictly between stop and target, and the target rr times as far
\* from the entry as the stop is.
C32_SignalGeometry ==
    gen = "returned" =>
        \A sg \in Emitted :
            IF sg.side = "long"
            THEN /\ sg.stop_loss = SweepBarOf(sg.symbol).low - 3 * PipPoints
                 /\ sg.stop_loss < sg.entry
                 /\ 10 * sg.entry < sg.take_profit10
                 /\ sg.take_profit10 - 10 * sg.entry = sg.rr * (sg.entry - sg.stop_loss)
            ELSE /\ sg.stop_loss = SweepBarOf(sg.symbol).high + 3 * PipPoints
                 /\ sg.take_profit10 < 10 * sg.entry
                 /\ sg.entry < sg.stop_loss
                 /\ 10 * sg.entry - sg.take_profit10 = sg.rr * (sg.stop_loss - sg.entry)

\* One call that returns a long and a short.
C32_Witness ==
    /\ gen = "returned"
    /\ \E a, b \in Emitted : a.side = "long" /\ b.side = "short"

\* C33: the RR of a Liquidity signal is the instrument's premium tier exactly
\* when the level swept is the previous day's high or low, and its default
\* tier when the level is an equal high or an equal low.
C33_PremiumForPreviousDay ==
    gen = "returned" =>
        \A sg \in Emitted :
            /\ sg.level \in {"PDH", "PDL", "EQH", "EQL"}
            /\ PAIR_CONFIG[sg.symbol].rr_premium # PAIR_CONFIG[sg.symbol].rr_default
            /\ sg.rr = PAIR_CONFIG[sg.symbol].rr_premium <=> sg.level \in {"PDH", "PDL"}
            /\ sg.rr = PAIR_CONFIG[sg.symbol].rr_default <=> sg.level \in {"EQH", "EQL"}

\* One call that returns a signal of each tier.
C33_Witness ==
    /\ gen = "returned"
    /\ \E a, b \in Emitted :
          /\ a.level = "PDL" /\ a.rr = PAIR_CONFIG[a.symbol].rr_premium
          /\ b.level = "EQL" /\ b.rr = PAIR_CONFIG[b.symbol].rr_default


(***************************************************************************)
(* The trend of the swings and the bias of a timeframe                      *)
(* (liquidity_sweep_strategy.py 84-135), applied to families of bars, and   *)
(* generate_signals' turn for a symbol whose 5M window would give a signal. *)
(***************************************************************************)
\* Bars whose lows run along a line (or a V with its point at bar 12) of
\* slope lows, whose highs run along a line of slope highs, with a dip of the
\* low every fifth bar and a spike of the high every fifth bar, from bar
\* `start` on.
Wave(a) ==
    [i \in 1..a.n |->
        LET run == IF a.vee THEN Abs(i - 12) ELSE i
            dip == IF a.dips /\ i >= a.start /\ i % 5 = 3 THEN 100 ELSE 0
            spike == IF a.spikes /\ i >= a.start /\ i % 5 = 0 THEN 100 ELSE 0
        IN Candle(i, 2000, 3000 + a.highs * i + spike, 1000 + a.lows * run - dip,
                  2000)]

BiasAsks ==
    [fn : {"_compute_bias_4h"}, symbol : {"EURGBP", "XAUUSD"},
     n : {19, HtfBars}, lows : {-10, 0, 10}, highs : {-10, 0, 10},
     vee : BOOLEAN, dips : BOOLEAN, spikes : BOOLEAN, start : {1, 20},
     bar : {"pdl", "pdh"}]

InitBias ==
    /\ EngineInit /\ HistoryInit /\ StrategyInit /\ TickInit(0) /\ OverlapInit
    /\ SignalInit /\ HoursInit
    /\ ask \in BiasAsks
    /\ answer = [fn |-> "pending"]

\* The 5M window breaks the structure after the bar under study and repeats
\* the bar, the 1H bars are the 4H bars.
ComputeBias ==
    /\ ask.fn = "_compute_bias_4h"
    /\ ~Answered
    /\ LET candles_4h == Wave(ask)
           swings == _find_swings(candles_4h, 2)
           window == Window5m(Scene("none", 10, "flat", "flat", ask.bar, 1, TRUE,
                                    TRUE))
       IN  answer' = [fn |-> ask.fn,
                      lows |-> [i \in 1..Len(swings.lows) |-> swings.lows[i].low],
                      highs |-> [i \in 1..Len(swings.highs) |-> swings.highs[i].high],
                      uptrend |-> _is_up_trend(swings.lows),
                      downtrend |-> _is_down_trend(swings.highs),
                      bias |-> _compute_bias_4h(candles_4h),
                      signals |-> symbol_signals(ask.symbol,
                                      MarketData(10, candles_4h, candles_4h, window))]
    /\ UNCHANGED <<envVars, engineVars, localVars, ghostVars, historyVars,
                   strategyVars, tickVars, overlapVars, signalVars, ask, hoursVars>>

NextBias == ComputeBias

SpecBias == InitBias /\ [][NextBias]_vars

\* the last three values exist and rise strictly
LastThreeRise(values) ==
    /\ Len(values) >= 3
    /\ values[Len(values) - 2] < values[Len(values) - 1]
    /\ values[Len(values) - 1] < values[Len(values)]

LastThreeFall(values) ==
    /\ Len(values) >= 3
    /\ values[Len(values) - 2] > values[Len(values) - 1]
    /\ values[Len(values) - 1] > values[Len(values)]

\* C34: uptrend holds iff there are at least 3 swing lows and the last 3 rise
\* strictly, downtrend iff there are at least 3 swing highs and the last 3
\* fall strictly; the bias is bullish only when uptrend holds and downtrend
\* does not (and then it is, from 20 bars on), bearish in the mirrored case,
\* range when both or neither hold; a range 4H bias gives no signal.
C34_TrendFromSwings ==
    Answered /\ answer.fn = "_compute_bias_4h" =>
        /\ answer.uptrend <=> LastThreeRise(answer.lows)
        /\ answer.downtrend <=> LastThreeFall(answer.highs)
        /\ answer.bias \in {"bullish", "bearish", "range"}
        /\ answer.bias = "bullish" => answer.uptrend /\ ~answer.downtrend
        /\ answer.bias = "bearish" => answer.downtrend /\ ~answer.uptrend
        /\ (answer.uptrend <=> answer.downtrend) => answer.bias = "range"
        /\ ask.n >= 20 /\ answer.uptrend /\ ~answer.downtrend => answer.bias = "bullish"
        /\ ask.n >= 20 /\ answer.downtrend /\ ~answer.uptrend => answer.bias = "bearish"
        /\ answer.bias = "range" => answer.signals = <<>>

\* Rising swing lows and falling swing highs at once: a range, and no signal
\* from a window that gives one under a bullish bias.
C34_Witness_BothTrends ==
    /\ Answered /\ answer.fn = "_compute_bias_4h"
    /\ answer.uptrend /\ answer.downtrend
    /\ answer.bias = "range" /\ answer.signals = <<>>
    /\ ask.n = HtfBars /\ ask.bar = "pdl"

\* The same window under a bullish bias of 4H bars whose earlier swing lows
\* fall: a signal.
C34_Witness_Bullish ==
    /\ Answered /\ answer.fn = "_compute_bias_4h"
    /\ answer.bias = "bullish" /\ answer.signals # <<>>
    /\ Len(answer.lows) > 3 /\ answer.lows[1] > answer.lows[2]


(***************************************************************************)
(* The closed-trade ledger (engine.py 131-164, 180-181), with any number of *)
(* trades closing between two cycles.                                       *)
(***************************************************************************)
\* A second open trade closes before the engine has polled the account.
CloseAnother ==
    /\ pc = "idle"
    /\ Len(closed_trade_results) < MaxLedger
    /\ closed_trade_results # <<>>
    /\ Abs(acctPl - closed_trade_results[Len(closed_trade_results)].cumulative_pl) = 1
    /\ \E t \in sinkTrades, d \in {-1, 1} :
          /\ sinkTrades' = sinkTrades \ {t}
          /\ acctPl' = acctPl + d
    /\ UNCHANGED <<utcDay, localDay, nav, engineVars, localVars, ghostVars,
                   outsideEngine>>

\* Two tradeable crosses, or none.
LedgerChoices ==
    {<<Quiet, a, b, Quiet>> : a \in {Quiet, ExtremeLong}, b \in {Quiet, ExtremeLong}}

NextLedger ==
    \/ BeginCall
    \/ \E f \in LedgerChoices : Scan(f)
    \/ ExecuteStep
    \/ Exit
    \/ CloseTrade
    \/ CloseAnother

SpecLedger == Init /\ [][NextLedger]_vars

\* What a step may do to the ledger: nothing, or (at the start of a cycle
\* only) add one record at the end, the first with delta 0, a later one with
\* the difference, which is not 0, between the account's cumulative P/L and
\* the last record's.
LedgerStep ==
    LET old == closed_trade_results
        new == closed_trade_results'
        n == Len(old)
    IN new # old =>
          /\ pc = "idle" /\ pc' # "idle"
          /\ Len(new) = n + 1
          /\ \A i \in 1..n : new[i] = old[i]
          /\ new[n + 1].cumulative_pl = acctPl
          /\ IF n = 0 THEN new[1].pl = 0
             ELSE /\ acctPl # old[n].cumulative_pl
                  /\ new[n + 1].pl = acctPl - old[n].cumulative_pl
                  /\ new[n + 1].pl # 0

\* A cycle halted by the kill switch of consecutive losses has a ledger of
\* the seed record, whose delta is 0, and at least
\* KILL_SWITCH_CONSECUTIVE_LOSSES later records, whose deltas are not.
LedgerCurrent ==
    Reason = "kill_switch_consecutive_losses" =>
        /\ Len(closed_trade_results) >= KILL_SWITCH_CONSECUTIVE_LOSSES + 1
        /\ closed_trade_results[1].pl = 0
        /\ \A i \in 2..Len(closed_trade_results) : closed_trade_results[i].pl # 0

Qualifies(sig) ==
    _calc_position_size(call.balance, RISK_PCT_PER_TRADE10, sig.entry,
                        sig.stop_loss, sig.symbol) > 0

\* C36: with execution enabled, a qualifying signal for a symbol no order was
\* ever submitted for leads to a place_order call, whatever the monotonic
\* clock reads: after such a tick the symbol has been submitted at least once.
C36_FirstSignalIsPlaced ==
    tick.status = "returned" /\ call.open /\ call.execute_trades =>
        \A i \in 1..Len(tick.signals) :
            Qualifies(tick.signals[i]) =>
                Get(tried, tick.signals[i].symbol, -1) # -1


(***************************************************************************)
(* Windows whose bars have distinct timestamps                              *)
(* (liquidity_sweep_strategy.py 251-273, 287-315, 406-415)                  *)
(***************************************************************************)
DistinctTimestamps(candles) ==
    \A i, j \in 1..Len(candles) :
        i # j => candles[i].timestamp # candles[j].timestamp

\* the sweep generate_signals finds in the symbol's window, under the bias
SweepOf(symbol, bias) ==
    LET window == Window5m(feed[symbol])
    IN _detect_sweep(window, _build_liquidity_levels(window), bias,
                     PAIR_CONFIG[symbol])

\* C37: a sweep that _detect_sweep returns is on the last bar of the 5M
\* window, so in a window of pairwise distinct timestamps _confirm_bos has no
\* later bar to scan and returns False; generate_signals returns no signal
\* for a symbol with such a window, and an empty list when every window is
\* such.
C37_NoSignalFromDistinctTimestamps ==
    gen = "returned" =>
        /\ \A sym \in DOMAIN feed, bias \in {"bullish", "bearish"} :
              LET window == Window5m(feed[sym])
                  sweep == SweepOf(sym, bias)
              IN sweep.found =>
                    /\ sweep.candle = window[Len(window)]
                    /\ DistinctTimestamps(window) => ~_confirm_bos(window, sweep)
        /\ \A sym \in DOMAIN feed :
              DistinctTimestamps(Window5m(feed[sym])) =>
                  \A sg \in Emitted : sg.symbol # sym
        /\ (\A sym \in DOMAIN feed : DistinctTimestamps(Window5m(feed[sym])))
              => signals = <<>>

\* Every window has distinct timestamps, a spread within the limit and
\* aligned biases, one of them ends on a bar that sweeps the previous day's
\* low, and the call returns nothing.
C37_Witness ==
    /\ gen = "returned" /\ signals = <<>>
    /\ \A sym \in DOMAIN feed : DistinctTimestamps(Window5m(feed[sym]))
    /\ feed["EURGBP"].spread = 10
    /\ feed["EURGBP"].bias4 = "up" /\ feed["EURGBP"].bias1 = "up"
    /\ SweepOf("EURGBP", "bullish").found
    /\ SweepOf("EURGBP", "bullish").level.kind = "PDL"


(***************************************************************************)
(* Cycles that end at a gate (engine.py 181-285, 329-367)                   *)
(***************************************************************************)
HaltReasons ==
    {"market_closed", "kill_switch_daily_drawdown_exceeded",
     "kill_switch_consecutive_losses", "max_open_trades_reached",
     "outside_session_hours", "no_pairs_above_vol_threshold"}

Halted == Returned /\ Reason \in HaltReasons

\* A halted cycle never entered the execution loop: no order went to the
\* sink, the summary has no action, nothing was appended to the trade
\* history and one summary was appended to the run history.
HaltedClean ==
    Halted =>
        /\ orders = <<>> /\ actions = <<>> /\ last_summary.actions = <<>>
        /\ candidate_list = <<>> /\ idx = 0
        /\ recent_trades = <<>>
        /\ recent_runs = <<last_summary>>

\* The steps of run_once before the execution loop leave the sink, the
\* account, the clock and the trade history alone.
GateStep ==
    pc \in {"idle", "scan"} /\ pc' \in {"scan", "done"} =>
        UNCHANGED <<envVars, outsideEngine, recent_trades>>

\* C38: a run_once cycle that ends with a halt reason submits no order,
\* returns an empty actions list and leaves the trade history unchanged; of
\* the engine's state it changes the run history and the last summary, and
\* possibly the daily anchor and the closed-trade ledger, nothing else.
C38_HaltedCycleFrame == [][GateStep]_vars /\ []HaltedClean

\* A cycle halted outside the session hours after the scan, with a trade open
\* at the sink and a ledger of several records that is up to date.
C38_Witness ==
    /\ Halted /\ Reason = "outside_session_hours"
    /\ sinkTrades # {}
    /\ Len(closed_trade_results) > 1
    /\ closed_trade_results[Len(closed_trade_results)].cumulative_pl = acctPl


(***************************************************************************)
(* The side of the breakout and the side of the signal                      *)
(* (strategy.py 134-165, 184-210, 316-340)                                  *)
(***************************************************************************)
\* C39: a LONG signal is returned only when the last close is above the high
\* of the consolidation channel, a SHORT signal only when it is below the
\* channel's low.
C39_BreakoutInTradeDirection ==
    /\ signal.side = "LONG" => bars.close > bars.channel.high
    /\ signal.side = "SHORT" => bars.close < bars.channel.low


(***************************************************************************)
(* The base cap and the portfolio-risk gate (risk.py 130-139, engine.py     *)
(* 206-209, 270-285, 449-460): a day passes and the equity halves, so that  *)
(* one open trade alone carries more than MAX_TOTAL_PORTFOLIO_RISK.         *)
(***************************************************************************)
CapLevels == {480, 1000}

NavHalves == NavMoveTo(CapLevels)

CapChoices ==
    {<<Quiet, a, b, Quiet>> : a \in {Quiet, HotLong}, b \in {Quiet, HotLong, HotLongWide}}

NextCap ==
    \/ BeginCall
    \/ \E f \in CapChoices : Scan(f)
    \/ ExecuteStep
    \/ Exit
    \/ TickUtc
    \/ TickLocal
    \/ NavHalves

SpecCap == Init /\ [][NextCap]_vars

BaseCapInForce == effective_max_trades = MAX_OPEN_TRADES

\* The risk gate blocks the candidate of this iteration whatever its size.
RiskGateBlocks ==
    LET a == TopK(candidate_list)[idx]
    IN \A units \in {0, compute_position_size(equity, 1, a.dist),
                     compute_position_size(equity * EXTREME_RISK_FACTOR, 10, a.dist)} :
          ExceedsCeiling(portfolio_risk + compute_trade_risk_pct(a.dist, units, equity),
                         equity)

\* An iteration of the loop under the base cap submits nothing, its candidate
\* being one the risk gate blocks; and no iteration changes the cap.
BaseCapStep ==
    pc = "exec" =>
        /\ effective_max_trades' = effective_max_trades
        /\ BaseCapInForce =>
              /\ start_risk * 100 > MAX_TOTAL_PORTFOLIO_RISK * equity
              /\ RiskGateBlocks /\ ~CandidatePasses
              /\ UNCHANGED <<sinkTrades, orders, actions, portfolio_risk>>

\* C40: in every cycle whose cap is the base cap MAX_OPEN_TRADES (the
\* portfolio risk at the start of the cycle is above
\* MAX_TOTAL_PORTFOLIO_RISK) the portfolio-risk gate blocks every candidate;
\* every order is submitted in a cycle whose cap is
\* MAX_OPEN_TRADES_EXTENDED, and the cap stays what it was at the start of
\* the cycle while the tracked risk grows.
C40_BaseCapNeverLimits ==
    /\ [][BaseCapStep]_vars
    /\ [](orders # <<>> => effective_max_trades = MAX_OPEN_TRADES_EXTENDED)
    /\ [](BaseCapInForce /\ pc # "idle" => orders = <<>> /\ actions = <<>>)

\* A cycle under the base cap with one trade open went through the loop: its
\* candidate passed the other gates and the risk gate blocked it.
C40_Witness ==
    /\ Returned /\ BaseCapInForce /\ InLoop
    /\ Reason = "no_valid_signals_in_hot_pairs"
    /\ start_count < MAX_OPEN_TRADES
    /\ LET a == TopK(candidate_list)[idx]
       IN /\ \A t \in open_trades : t.instrument # a.pair
          /\ a.side # "FLAT" /\ a.confidence >= CONFIDENCE_MIN
          /\ ~would_stack_usd_exposure(a.pair, a.side, open_trades)
          /\ compute_position_size(equity, 1, a.dist) > 0

\* The tracked risk grew in a cycle under the extended cap and the cap stayed.
C40_Witness_RiskGrows ==
    /\ pc = "exec" /\ Len(orders) = 1
    /\ portfolio_risk > start_risk
    /\ effective_max_trades = MAX_OPEN_TRADES_EXTENDED


=============================================================================
